---- MODULE Spec2Model ----
(***************************************************************************)
(* Two-party exact pattern matching (src/client/src/App.jsx, the C++ part  *)
(* from line 181 on): a pattern holder and a text holder run main() each.  *)
(* Phase 1 secret-shares every pattern byte and every window byte, each    *)
(* party computes its local difference shares and hashes them per window;  *)
(* phase 2/3 re-shares the digests and evaluates the NEG/ADD/HAM/DPF/AND   *)
(* equality circuit.  The two processes are indexed by their party id.     *)
(***************************************************************************)
EXTENDS Integers, Sequences, FiniteSets, TLC

\* ------------------------------------------------------------------ bounds
MaxPatternLen == 2
MaxTextLen == 3

\* ------------------------------------------------------- program constants
HashSize == 32
RequiredInputSize == 16
ByteMod == 256

\* Bytes the strings are drawn from ("A", "B").
Alphabet == {65, 66}
\* Seeds of the backend's share generator a run may draw.
ShareSeeds == {0, 200}
\* Patterns of boolean output shares the backend may hand to party 0.
BoolMasks == {"zero", "alternating"}
\* Values of --repetitions.
RepetitionCounts == {1, 2}

Parties == {0, 1}
Other(p) == 1 - p

NullOpt == [none |-> TRUE]

\* ----------------------------------------------------------------- helpers
Strings(n) == UNION {[1..k -> Alphabet] : k \in 0..n}

Min(a, b) == IF a < b THEN a ELSE b

\* uint8_t arithmetic: wrap-around modulo 2^8.
Sub8(a, b) == (a - b) % ByteMod

Neg8(a) == (0 - a) % ByteMod

RECURSIVE XorBits(_, _, _)
XorBits(a, b, n) ==
  IF n = 0 THEN 0
  ELSE (IF (a % 2) = (b % 2) THEN 0 ELSE 1) + 2 * XorBits(a \div 2, b \div 2, n - 1)

Xor8(a, b) == XorBits(a, b, 8)

RECURSIVE PopCount(_)
PopCount(a) == IF a = 0 THEN 0 ELSE (a % 2) + PopCount(a \div 2)

BoolXor(a, b) == a # b

\* --------------------------------------------------------- StringProcessing
\* break_pattern_into_chars followed by pattern_chars_to_integers.
pattern_holder(pattern) == [i \in 1..Len(pattern) |-> pattern[i]]

\* A loop that stops one window early.
create_sliding_windows_short(text, pattern_size) ==
  IF Len(text) < pattern_size THEN << >>
  ELSE [i \in 1..(Len(text) - pattern_size) |->
          [j \in 1..pattern_size |-> text[i + j - 1]]]

create_sliding_windows(text, pattern_size) ==
  IF Len(text) < pattern_size THEN << >>
  ELSE [i \in 1..(Len(text) - pattern_size + 1) |->
          [j \in 1..pattern_size |-> text[i + j - 1]]]

\* create_sliding_windows followed by sliding_windows_to_integers.
text_holder(text, pattern_size) == create_sliding_windows(text, pattern_size)

\* The 16-byte input buffer of hash_difference_vector: the first 16 bytes
\* copied, every later byte XOR-ed into position i mod 16, the rest zero.
FoldExcess_truncated(differences, j, i) ==
  IF i > Len(differences) THEN 0 ELSE differences[i]

RECURSIVE FoldExcess(_, _, _)
FoldExcess(differences, j, i) ==
  IF i > Len(differences) THEN 0
  ELSE Xor8(differences[i], FoldExcess(differences, j, i + RequiredInputSize))

input_buffer(differences) ==
  [j \in 1..RequiredInputSize |->
     IF j <= Min(Len(differences), RequiredInputSize)
     THEN FoldExcess(differences, j, j)
     ELSE 0]

\* The 16-byte to 32-byte compression function: deterministic and injective.
G_tiny(buffer) ==
  [j \in 1..HashSize |->
     (3 * buffer[((j - 1) % RequiredInputSize) + 1] + j) % ByteMod]

\* A digest of the first 16 bytes only.
hash_difference_vector_unfolded(differences) ==
  G_tiny(input_buffer(SubSeq(differences, 1,
                             Min(Len(differences), RequiredInputSize))))

hash_difference_vector(differences) == G_tiny(input_buffer(differences))

\* ------------------------------------------------------------------- state
VARIABLES
  argv,           \* argv[p]: the command line of party p
  options,        \* options[p]: the parsed Options, or NullOpt
  pc,             \* pc[p]: where party p stands in main()
  rep,            \* rep[p]: the repetition counter of the current loop
  comm_layer,     \* comm_layer[p]: "none", "connecting", "up", "released", "down"
  setup_calls,    \* setup_calls[p]: calls of setup_communication so far
  backends,       \* backends[p]: TwoPartyBackend instances constructed so far
  shared_data,    \* shared_data[p]: SecretSharedData of the current repetition
  diffs,          \* diffs[p]: the difference vectors last computed, per window
  hashes,         \* hashes[p]: main's `hashes`
  shared_hash,    \* shared_hash[p]: SecretShareHash of the current repetition
  final_results,  \* final_results[p]: HAMDPFCircuit.final_results (own shares)
  out,            \* out[p]: results printed so far, one record per repetition
  backend,        \* backend[p]: the TwoPartyBackend of the current repetition
  handles,        \* handles[p]: the backend instance that made each structure
  reads           \* reads[p]: the wire reads party p has made so far

matcherVars == <<argv, options, pc, rep, comm_layer, setup_calls, backends, shared_data,
                 diffs, hashes, shared_hash, final_results, out, backend, handles, reads>>

\* The state of the upload service (src/server/index.js) and of its clients.
VARIABLES
  now,            \* Date.now(), in milliseconds
  ticks,          \* how often the clock has advanced
  wasm_module,    \* pqkem's modulePromise: "unloaded", "loading", "ready"
                  \* or "failed"
  microtasks,     \* continuations of awaits whose promise has settled
  loading,        \* continuations that wait for the module to load
  kemKeys,        \* the Map kemKeys: keyId -> {pk, sk, createdAt}
  issued,         \* createdAt of every keyId ever issued
  files,          \* the Map files: id -> metadata
  uploads_plain,  \* the directory uploads_plain: storedName -> bytes
  uuid_calls,     \* calls of uuid() so far
  client,         \* client[c]: the state of uploading client c
  requests,       \* the POST /upload-pq requests sent so far
  downloads,      \* the answers of GET /files/:id so far
  listings,       \* the answers of GET /files so far
  deployment,     \* which variant of index.js runs, and what its WASM build does
  module_loads,   \* module_loads[side]: runs of the loader that imports the
                  \* module and invokes the Emscripten factory
  browser_module, \* mlkem.js's modulePromise: "unloaded", "loading", "ready"
                  \* or "failed"
  heap,           \* heap[side]: the buffers of the module's WASM memory
  wasm_call       \* the last call of an ML-KEM wrapper made on its own

serverVars == <<now, ticks, wasm_module, microtasks, loading, kemKeys, issued,
                files, uploads_plain, uuid_calls, client, requests, downloads,
                listings, deployment, module_loads, browser_module, heap,
                wasm_call>>

vars == <<matcherVars, serverVars>>

\* A wire or promise that holds no value yet.
Unset == 0 - 1

NoSharedData ==
  [pattern_char_wires |-> << >>, pattern_char_promises |-> << >>,
   text_window_wires |-> << >>, text_window_promises |-> << >>]

NoSharedHash ==
  [my_hash_wires |-> << >>, my_hash_promises |-> << >>, other_hash_wires |-> << >>]

\* No TwoPartyBackend in scope: outside the repetition loops.
NoBackend ==
  [id |-> 0, run_calls |-> 0, gates |-> << >>, set_value_calls |-> << >>,
   circuit |-> << >>]

\* No structure of wires has been made yet.
NoHandles == [shared_data |-> 0, shared_hash |-> 0, final_results |-> 0]

\* ---------------------------------------------------------- command lines
Absent == [has |-> FALSE, val |-> << >>]

Some(v) == [has |-> TRUE, val |-> v]

OptSize(n) == {Absent} \cup {Some(k) : k \in 0..n}

\* A string of k bytes whose content does not matter.
Filler(k) == [i \in 1..k |-> 65]

OptFiller(n) == {Absent} \cup {Some(Filler(k)) : k \in 0..n}

\* The two parties were given each other's true lengths.
ConsistentInputs ==
  {[pattern |-> Some(P), text |-> Some(T),
    pattern_size |-> Some(Len(P)), text_size |-> Some(Len(T))] :
     P \in Strings(MaxPatternLen), T \in Strings(MaxTextLen)}

\* Any lengths, any declared sizes, any option left out.
ConfigInputs ==
  {[pattern |-> P, text |-> T, pattern_size |-> ps, text_size |-> ts] :
     P \in OptFiller(MaxPatternLen), T \in OptFiller(MaxTextLen),
     ps \in OptSize(MaxPatternLen), ts \in OptSize(MaxTextLen)}

Inputs == ConsistentInputs \cup ConfigInputs

CommandLine(role, pattern, text, pattern_size, text_size, json, no_run, reps) ==
  [role |-> role, pattern |-> pattern, text |-> text,
   pattern_size |-> pattern_size, text_size |-> text_size,
   json |-> json, no_run |-> no_run, repetitions |-> reps]

\* ------------------------------------------------------ parse_program_options
Options(a, id, pattern, text, pattern_size, text_size) ==
  [my_id |-> id, role |-> a.role, pattern |-> pattern, text |-> text,
   pattern_size |-> pattern_size, text_size |-> text_size,
   json |-> a.json, no_run |-> a.no_run, num_repetitions |-> a.repetitions]

\* A comparison that lets equal lengths through.
SizeCheck_strict(o) == IF o.pattern_size > o.text_size THEN NullOpt ELSE o

\* Lines 352-355: the pattern must be shorter than the text.
SizeCheck(o) == IF o.pattern_size >= o.text_size THEN NullOpt ELSE o

parse_program_options(a, id) ==
  IF a.role = "pattern_holder" THEN
    IF ~a.pattern.has THEN NullOpt
    ELSE IF ~a.text_size.has THEN NullOpt
    ELSE SizeCheck(Options(a, id, a.pattern.val, << >>,
                           Len(a.pattern.val), a.text_size.val))
  ELSE IF a.role = "text_holder" THEN
    IF ~a.text.has THEN NullOpt
    ELSE IF ~a.pattern_size.has THEN NullOpt
    ELSE SizeCheck(Options(a, id, << >>, a.text.val,
                           a.pattern_size.val, Len(a.text.val)))
  ELSE NullOpt

\* ------------------------------------------------------------ upload service
\* The two uploading clients: client_cli.mjs (main) and App.jsx (uploadFile).
Clients == {"cli", "browser"}

\* A client that has not been started.
NoClient == [pc |-> "off", file |-> << >>, name |-> << >>, keyId |-> 0,
             pkB64 |-> [chars |-> 0, pad |-> 0, seed |-> 0], ttlSeconds |-> 0,
             swept |-> FALSE, left_stale |-> FALSE, awaits |-> 0,
             module_at_call |-> "unloaded"]

\* Where a copy of the ML-KEM WASM module is loaded.
Sides == {"server", "browser"}

\* A WASM heap without a buffer: the pointers that malloc has returned and
\* free has not taken back, what each buffer holds, the calls of malloc and
\* of free so far, and the calls that broke the contract of the allocator.
EmptyHeap == [live |-> {}, mem |-> << >>, mallocs |-> 0, frees |-> 0,
              faults |-> {}]

\* No wrapper has been called on its own.
NoCall == [fn |-> "none", calls |-> 0, rc |-> 0,
           ct |-> [len |-> 0, seed |-> 0], sk |-> [len |-> 0, seed |-> 0],
           pk |-> [len |-> 0, seed |-> 0], threw |-> FALSE, out |-> << >>,
           before |-> EmptyHeap, after |-> EmptyHeap]

\* index.js 1-167 (and 169-314): the service with the post-quantum upload,
\* whose ML-KEM routines return 0.
PqDeployment == [variant |-> "pq", return_codes |-> {0}]

\* index.js 316-422: the service that takes plaintext uploads over TLS 1.3.
TlsDeployment == [variant |-> "tls", return_codes |-> {0}]

\* The upload service before it is started: empty Maps, nothing in flight.
ServerOff ==
  /\ now = 0
  /\ ticks = 0
  /\ wasm_module = "unloaded"
  /\ microtasks = << >>
  /\ loading = << >>
  /\ kemKeys = << >>
  /\ issued = << >>
  /\ files = << >>
  /\ uploads_plain = << >>
  /\ uuid_calls = 0
  /\ client = [c \in Clients |-> NoClient]
  /\ requests = << >>
  /\ downloads = {}
  /\ listings = {}
  /\ deployment = PqDeployment
  /\ module_loads = [side \in Sides |-> 0]
  /\ browser_module = "unloaded"
  /\ heap = [side \in Sides |-> EmptyHeap]
  /\ wasm_call = NoCall

\* ------------------------------------------------------------------- Init
Init ==
  \E ph \in Parties, in \in Inputs, json \in BOOLEAN, no_run \in BOOLEAN,
     reps \in RepetitionCounts :
    /\ argv = [p \in Parties |->
                 IF p = ph
                 THEN CommandLine("pattern_holder", in.pattern, Absent, Absent,
                                  in.text_size, json, no_run, reps)
                 ELSE CommandLine("text_holder", Absent, in.text,
                                  in.pattern_size, Absent, json, no_run, reps)]
    /\ options = [p \in Parties |-> NullOpt]
    /\ pc = [p \in Parties |-> "start"]
    /\ rep = [p \in Parties |-> 0]
    /\ comm_layer = [p \in Parties |-> "none"]
    /\ setup_calls = [p \in Parties |-> 0]
    /\ backends = [p \in Parties |-> 0]
    /\ shared_data = [p \in Parties |-> NoSharedData]
    /\ diffs = [p \in Parties |-> << >>]
    /\ hashes = [p \in Parties |-> << >>]
    /\ shared_hash = [p \in Parties |-> NoSharedHash]
    /\ final_results = [p \in Parties |-> << >>]
    /\ out = [p \in Parties |-> << >>]
    /\ backend = [p \in Parties |-> NoBackend]
    /\ handles = [p \in Parties |-> NoHandles]
    /\ reads = [p \in Parties |-> {}]
    /\ ServerOff

\* ------------------------------------------------------------------- main
\* Lines 1181-1186: parse the command line; no options, EXIT_FAILURE.
ParseProgramOptions(p) ==
  /\ pc[p] = "start"
  /\ options' = [options EXCEPT ![p] = parse_program_options(argv[p], p)]
  /\ pc' = [pc EXCEPT ![p] = IF options'[p] = NullOpt THEN "exit_failure"
                             ELSE "p1_setup"]
  /\ UNCHANGED <<serverVars, backend, handles, reads, argv, rep, comm_layer, setup_calls, backends, shared_data,
                 diffs, hashes, shared_hash, final_results, out>>

\* setup_communication is entered: the TCP setup blocks until the peer joins.
SetupCommunication(p) ==
  /\ pc[p] \in {"p1_setup", "p2_setup"}
  /\ setup_calls' = [setup_calls EXCEPT ![p] = @ + 1]
  /\ comm_layer' = [comm_layer EXCEPT ![p] = "connecting"]
  /\ pc' = [pc EXCEPT ![p] = IF pc[p] = "p1_setup" THEN "p1_connecting"
                             ELSE "p2_connecting"]
  /\ UNCHANGED <<serverVars, backend, handles, reads, argv, options, rep, backends, shared_data, diffs, hashes,
                 shared_hash, final_results, out>>

\* Both parties are inside setup_communication of the same phase: the
\* connections are established and both enter the repetition loop.
Connect ==
  /\ \E ph \in {"p1", "p2"} :
       /\ \A p \in Parties : pc[p] = IF ph = "p1" THEN "p1_connecting"
                                     ELSE "p2_connecting"
       /\ pc' = [p \in Parties |-> IF ph = "p1" THEN "p1_loop" ELSE "p2_loop"]
  /\ comm_layer' = [p \in Parties |-> "up"]
  /\ rep' = [p \in Parties |-> 0]
  /\ UNCHANGED <<serverVars, backend, handles, reads, argv, options, setup_calls, backends, shared_data, diffs,
                 hashes, shared_hash, final_results, out>>

\* Places where a party waits for its peer (connection setup, backend.run,
\* comm_layer->sync).
Waiting == {"p1_connecting", "p1_run", "p1_sync", "p1_final",
            "p2_connecting", "p2_run", "p2_sync"}

\* ---------------------------------------------------- create_circuit_inputs
\* The rows of a structure indexed [window][pos], one after the other.
Flatten(ww) == [k \in 1..(Len(ww) * (IF Len(ww) = 0 THEN 0 ELSE Len(ww[1]))) |->
                  ww[((k - 1) \div Len(ww[1])) + 1][((k - 1) % Len(ww[1])) + 1]]

num_windows(o) == o.text_size - o.pattern_size + 1

\* The pattern holder reserving promise slots for the windows as well.
create_circuit_inputs_both_promises(o) ==
  [pattern_char_wires |-> [i \in 1..o.pattern_size |-> Unset],
   pattern_char_promises |->
     IF o.role = "pattern_holder" THEN [i \in 1..o.pattern_size |-> Unset]
     ELSE << >>,
   text_window_wires |->
     [window \in 1..num_windows(o) |-> [pos \in 1..o.pattern_size |-> Unset]],
   text_window_promises |->
     [window \in 1..num_windows(o) |-> [pos \in 1..o.pattern_size |-> Unset]]]

create_circuit_inputs(o) ==
  IF o.role = "pattern_holder" THEN
    [pattern_char_wires |-> [i \in 1..o.pattern_size |-> Unset],
     pattern_char_promises |-> [i \in 1..o.pattern_size |-> Unset],
     text_window_wires |->
       [window \in 1..num_windows(o) |-> [pos \in 1..o.pattern_size |-> Unset]],
     text_window_promises |-> << >>]
  ELSE
    [pattern_char_wires |-> [i \in 1..o.pattern_size |-> Unset],
     pattern_char_promises |-> << >>,
     text_window_wires |->
       [window \in 1..num_windows(o) |-> [pos \in 1..o.pattern_size |-> Unset]],
     text_window_promises |->
       [window \in 1..num_windows(o) |-> [pos \in 1..o.pattern_size |-> Unset]]]

\* One request to the gate factory: make_arithmetic_8_input_gate_my (mine)
\* or make_arithmetic_8_input_gate_other, for the byte named by the key.
Gate(mine, kind, index, pos) ==
  [mine |-> mine, key |-> [kind |-> kind, index |-> index, pos |-> pos]]

\* Lines 622-630 and 650-654: one gate per pattern character.
pattern_char_gates(o, mine) ==
  [i \in 1..o.pattern_size |-> Gate(mine, "pattern", i, 0)]

\* Lines 634-643 and 660-670: one gate per window and position, the window
\* loop outside.
text_window_gates(o, mine) ==
  [k \in 1..(num_windows(o) * o.pattern_size) |->
     Gate(mine, "text", ((k - 1) \div o.pattern_size) + 1,
          ((k - 1) % o.pattern_size) + 1)]

\* The position loop outside the window loop.
text_window_gates_by_position(o, mine) ==
  [k \in 1..(num_windows(o) * o.pattern_size) |->
     Gate(mine, "text", ((k - 1) % num_windows(o)) + 1,
          ((k - 1) \div num_windows(o)) + 1)]

\* The text holder filling its gates position by position.
create_circuit_inputs_gates_skewed(o) ==
  IF o.role = "pattern_holder"
  THEN pattern_char_gates(o, TRUE) \o text_window_gates(o, FALSE)
  ELSE pattern_char_gates(o, FALSE) \o text_window_gates_by_position(o, TRUE)

\* Lines 614-671: the requests create_circuit_inputs makes, in order.
create_circuit_inputs_gates(o) ==
  IF o.role = "pattern_holder"
  THEN pattern_char_gates(o, TRUE) \o text_window_gates(o, FALSE)
  ELSE pattern_char_gates(o, FALSE) \o text_window_gates(o, TRUE)

\* The requests of one kind, in the order they were made.
Owned(gates) == SelectSeq(gates, LAMBDA g : g.mine)
Foreign(gates) == SelectSeq(gates, LAMBDA g : ~g.mine)

\* A backend that is reused keeps the count of its run calls.
reused_run_calls(calls) == calls

\* Lines 1198 and 1295: a backend just constructed has never been run.
fresh_run_calls(calls) == 0

\* MOTION::TwoPartyBackend backend(...): instance number id of this party,
\* holding the requests for input gates made to its gate factory (gates) and
\* the requests for the gates of the equality circuit (circuit).
TwoPartyBackend(id, calls, gates) ==
  [id |-> id, run_calls |-> fresh_run_calls(calls), gates |-> gates,
   set_value_calls |-> [k \in 1..Len(Owned(gates)) |-> 0],
   circuit |-> << >>]

\* Lines 1198-1202: a repetition constructs its backend and the input gates.
CreateCircuitInputs(p) ==
  /\ pc[p] = "p1_loop"
  /\ rep[p] < options[p].num_repetitions
  /\ backends' = [backends EXCEPT ![p] = @ + 1]
  /\ shared_data' = [shared_data EXCEPT ![p] = create_circuit_inputs(options[p])]
  /\ backend' = [backend EXCEPT ![p] =
                   TwoPartyBackend(backends'[p], @.run_calls,
                                   create_circuit_inputs_gates(options[p]))]
  /\ handles' = [handles EXCEPT ![p].shared_data = backends'[p]]
  /\ pc' = [pc EXCEPT ![p] = "p1_inputs"]
  /\ UNCHANGED <<serverVars, reads, argv, options, rep, comm_layer, setup_calls, diffs, hashes,
                 shared_hash, final_results, out>>

\* Lines 1209-1256: the values fed to the promises of the owned gates.
fulfil_promises(o, sd) ==
  IF o.role = "pattern_holder" THEN
    [sd EXCEPT !.pattern_char_promises =
       [i \in 1..Len(pattern_holder(o.pattern)) |-> pattern_holder(o.pattern)[i]]]
  ELSE
    [sd EXCEPT !.text_window_promises =
       [window \in 1..Len(text_holder(o.text, o.pattern_size)) |->
          [pos \in 1..Len(text_holder(o.text, o.pattern_size)[window]) |->
             text_holder(o.text, o.pattern_size)[window][pos]]]]

\* A loop that stops before the last promise.
set_value_loop_short(o) ==
  IF o.role = "pattern_holder"
  THEN [i \in 1..(Len(pattern_holder(o.pattern)) - 1) |-> i]
  ELSE [k \in 1..(Len(Flatten(text_holder(o.text, o.pattern_size))) - 1) |-> k]

\* The owned gates whose promise the loops of lines 1215-1231 and 1241-1256
\* call set_value on, in the order of the calls.
set_value_loop(o) ==
  IF o.role = "pattern_holder"
  THEN [i \in 1..Len(pattern_holder(o.pattern)) |-> i]
  ELSE [k \in 1..Len(Flatten(text_holder(o.text, o.pattern_size))) |->
          (((k - 1) \div o.pattern_size) * o.pattern_size)
            + ((k - 1) % o.pattern_size) + 1]

\* The set_value calls per owned gate after the calls of `loop`.
set_value(calls, loop) ==
  [g \in 1..Len(calls) |->
     calls[g] + Cardinality({k \in 1..Len(loop) : loop[k] = g})]

FulfilPromises(p) ==
  /\ pc[p] = "p1_inputs"
  /\ shared_data' = [shared_data EXCEPT ![p] = fulfil_promises(options[p], @)]
  /\ backend' = [backend EXCEPT ![p].set_value_calls =
                   set_value(@, set_value_loop(options[p]))]
  /\ pc' = [pc EXCEPT ![p] = "p1_run"]
  /\ UNCHANGED <<serverVars, handles, reads, argv, options, rep, comm_layer, setup_calls, backends, diffs,
                 hashes, shared_hash, final_results, out>>

\* ------------------------------------------------------------ phase 1 run
PatternHolder == CHOOSE p \in Parties : argv[p].role = "pattern_holder"
TextHolder == Other(PatternHolder)

\* The gates of one party in the order of their creation.
OwnedGates1(o, sd) ==
  IF o.role = "pattern_holder" THEN sd.pattern_char_promises
  ELSE Flatten(sd.text_window_promises)

ForeignGates1(o, sd) ==
  IF o.role = "pattern_holder" THEN Flatten(sd.text_window_wires)
  ELSE sd.pattern_char_wires

\* The backend pairs the k-th owned gate of one party with the k-th foreign
\* gate of the other: the run resolves only when the two streams agree.
GatesMatch1 ==
  \A p \in Parties :
    Len(OwnedGates1(options[p], shared_data[p])) =
      Len(ForeignGates1(options[Other(p)], shared_data[Other(p)]))

\* The places, in the order of creation, of the send gates (mine) or of the
\* receive gates of a party.
Positions(gates, mine) ==
  SelectSeq([i \in 1..Len(gates) |-> i], LAMBDA i : gates[i].mine = mine)

\* A backend that resolves the gates of each party in the order of their
\* creation, pairing the r-th receive gate of a party with the r-th send
\* gate of its peer: a send never blocks, a receive completes once the peer
\* has passed the matching send.  Every gate is resolved when each receive
\* has a matching send that comes no later in the peer's order than the
\* receive comes in its own.
Drains(g) ==
  \A p \in Parties :
    LET receives == Positions(g[p], FALSE)
        sends == Positions(g[Other(p)], TRUE)
    IN /\ Len(receives) <= Len(sends)
       /\ \A r \in 1..Len(receives) : sends[r] <= receives[r]

BackendGates == [p \in Parties |-> backend[p].gates]

\* The seeds of the two parties' share generators in a run that drew s.
PartySeed(s) == [p \in Parties |-> (s + 101 * p) % ByteMod]

\* The share the owner of an input keeps; the peer receives value - share.
Rnd(seed, k) == (seed + 37 * k) % ByteMod

KeptShare(seed, k) == Rnd(seed, k)

SentShare(value, seed, k) == Sub8(value, KeptShare(seed, k))

\* backend.run of phase 1 with seeds sp (pattern holder) and st (text holder).
run_phase1(p, sp, st) ==
  LET mine == shared_data[p]
      peer == shared_data[Other(p)]
      ps == Len(mine.pattern_char_wires)
  IN IF options[p].role = "pattern_holder" THEN
       [mine EXCEPT
          !.pattern_char_wires = [i \in 1..ps |-> KeptShare(sp, i)],
          !.text_window_wires =
            [window \in 1..Len(mine.text_window_wires) |->
               [pos \in 1..ps |->
                  SentShare(peer.text_window_promises[window][pos], st,
                            (window - 1) * ps + pos)]]]
     ELSE
       [mine EXCEPT
          !.pattern_char_wires =
            [i \in 1..ps |-> SentShare(peer.pattern_char_promises[i], sp, i)],
          !.text_window_wires =
            [window \in 1..Len(mine.text_window_wires) |->
               [pos \in 1..ps |-> KeptShare(st, (window - 1) * ps + pos)]]]

\* Lines 828-833: both parties are inside backend.run, which returns once
\* every gate has resolved on both sides.
Phase1Execute ==
  /\ \A p \in Parties : pc[p] = "p1_run" /\ ~options[p].no_run
  /\ GatesMatch1
  /\ Drains(BackendGates)
  /\ \E s \in ShareSeeds :
       shared_data' = [p \in Parties |->
                         run_phase1(p, PartySeed(s)[PatternHolder],
                                    PartySeed(s)[TextHolder])]
  /\ backend' = [p \in Parties |-> [backend[p] EXCEPT !.run_calls = @ + 1]]
  /\ pc' = [p \in Parties |-> "p1_post"]
  /\ UNCHANGED <<serverVars, handles, reads, argv, options, rep, comm_layer, setup_calls, backends, diffs,
                 hashes, shared_hash, final_results, out>>

\* Lines 828-830: with no_run the circuit is not executed, no hashes.
SkipRun1(p) ==
  /\ pc[p] = "p1_run"
  /\ options[p].no_run
  /\ hashes' = [hashes EXCEPT ![p] = << >>]
  /\ pc' = [pc EXCEPT ![p] = "p1_sync"]
  /\ UNCHANGED <<serverVars, backend, handles, reads, argv, options, rep, comm_layer, setup_calls, backends,
                 shared_data, diffs, shared_hash, final_results, out>>

\* --------------------------------------------- compute_difference_concat_hash
share_difference_swapped(o, sd, window, pos) ==
  Sub8(sd.pattern_char_wires[pos], sd.text_window_wires[window][pos])

share_difference(o, sd, window, pos) ==
  Sub8(sd.text_window_wires[window][pos], sd.pattern_char_wires[pos])

\* Both roles storing the raw subtraction.
stored_difference_raw(o, sd, window, pos) == share_difference(o, sd, window, pos)

\* Lines 791-798: the pattern holder stores the negated difference.
stored_difference(o, sd, window, pos) ==
  IF o.role = "pattern_holder" THEN Neg8(share_difference(o, sd, window, pos))
  ELSE share_difference(o, sd, window, pos)

curr_window_share_difference(o, sd, window) ==
  [pos \in 1..o.pattern_size |-> stored_difference(o, sd, window, pos)]

difference_vectors(o, sd) ==
  [window \in 1..num_windows(o) |-> curr_window_share_difference(o, sd, window)]

compute_difference_concat_hash(o, sd) ==
  [window \in 1..num_windows(o) |->
     hash_difference_vector(curr_window_share_difference(o, sd, window))]

\* Lines 835-859: what run_pattern_text_circuit returns after backend.run.
run_pattern_text_circuit(o, sd) ==
  IF ~o.json THEN compute_difference_concat_hash(o, sd) ELSE << >>

\* The wires compute_difference_concat_hash and print_share_details read.
SharedDataWires(sd) ==
  {sd.pattern_char_wires[i] : i \in 1..Len(sd.pattern_char_wires)}
    \cup UNION {{sd.text_window_wires[w][pos] :
                   pos \in 1..Len(sd.text_window_wires[w])} :
                 w \in 1..Len(sd.text_window_wires)}

\* One read of a structure of wires: the phase, the backend instance whose
\* gate factory made the wires, the instance alive at the read with the
\* number of run calls it has completed, and whether a wire without a value
\* was among those read.
WireRead(phase, made_by, b, wires) ==
  [phase |-> phase, made_by |-> made_by, live |-> b.id,
   run_calls |-> b.run_calls, unset |-> Unset \in wires]

PostRun1(p) ==
  /\ pc[p] = "p1_post"
  /\ hashes' = [hashes EXCEPT ![p] =
                  run_pattern_text_circuit(options[p], shared_data[p])]
  /\ diffs' = [diffs EXCEPT ![p] =
                 IF ~options[p].json
                 THEN difference_vectors(options[p], shared_data[p]) ELSE @]
  /\ reads' = [reads EXCEPT ![p] =
                 IF ~options[p].json
                 THEN @ \cup {WireRead(1, handles[p].shared_data, backend[p],
                                       SharedDataWires(shared_data[p]))}
                 ELSE @]
  /\ pc' = [pc EXCEPT ![p] = "p1_sync"]
  /\ UNCHANGED <<serverVars, backend, handles, argv, options, rep, comm_layer, setup_calls, backends,
                 shared_data, shared_hash, final_results, out>>

\* The end of the loop body: the backend of the repetition is destroyed.
Destroyed(b) ==
  [b EXCEPT !.id = 0, !.gates = << >>, !.set_value_calls = << >>,
            !.circuit = << >>]

\* Lines 1262-1266: comm_layer->sync() is passed by both parties together;
\* the repetition ends and its backend and wires go out of scope.
Sync1 ==
  /\ \A p \in Parties : pc[p] = "p1_sync"
  /\ rep' = [p \in Parties |-> rep[p] + 1]
  /\ shared_data' = [p \in Parties |-> NoSharedData]
  /\ backend' = [p \in Parties |-> Destroyed(backend[p])]
  /\ handles' = [p \in Parties |-> [handles[p] EXCEPT !.shared_data = 0]]
  /\ pc' = [p \in Parties |-> "p1_loop"]
  /\ UNCHANGED <<serverVars, reads, argv, options, comm_layer, setup_calls, backends, diffs,
                 hashes, shared_hash, final_results, out>>

\* Line 1197: the loop condition fails, main goes on to the final sync.
LoopExit1(p) ==
  /\ pc[p] = "p1_loop"
  /\ rep[p] >= options[p].num_repetitions
  /\ pc' = [pc EXCEPT ![p] = "p1_final"]
  /\ UNCHANGED <<serverVars, backend, handles, reads, argv, options, rep, comm_layer, setup_calls, backends,
                 shared_data, diffs, hashes, shared_hash, final_results, out>>

\* Line 1269: the final synchronization of phase 1.
FinalSync1 ==
  /\ \A p \in Parties : pc[p] = "p1_final"
  /\ pc' = [p \in Parties |-> "p1_shutdown"]
  /\ UNCHANGED <<serverVars, backend, handles, reads, argv, options, rep, comm_layer, setup_calls, backends,
                 shared_data, diffs, hashes, shared_hash, final_results, out>>

\* Lines 1270-1274: shutdown and release of the phase-1 communication layer.
Shutdown1(p) ==
  /\ pc[p] = "p1_shutdown"
  /\ comm_layer' = [comm_layer EXCEPT ![p] = "released"]
  /\ pc' = [pc EXCEPT ![p] = "p2_setup"]
  /\ UNCHANGED <<serverVars, backend, handles, reads, argv, options, rep, setup_calls, backends, shared_data, diffs,
                 hashes, shared_hash, final_results, out>>

\* --------------------------------------------- create_hash_ss_circuit_inputs
create_hash_ss_circuit_inputs(o, hs) ==
  [my_hash_wires |->
     [hash_no \in 1..Len(hs) |-> [j \in 1..Len(hs[hash_no]) |-> Unset]],
   my_hash_promises |->
     [hash_no \in 1..Len(hs) |-> [j \in 1..Len(hs[hash_no]) |-> Unset]],
   other_hash_wires |->
     [hash_no \in 1..Len(hs) |-> [j \in 1..Len(hs[hash_no]) |-> Unset]]]

\* Both parties creating the receive gate of a byte before its send gate.
create_hash_ss_gates_receive_first(o, hs) ==
  [k \in 1..(2 * Len(Flatten(hs))) |->
     Gate(k % 2 = 0, "hash",
          ((((k + 1) \div 2) - 1) \div Len(hs[1])) + 1,
          ((((k + 1) \div 2) - 1) % Len(hs[1])) + 1)]

\* Lines 913-937: per digest and byte, party 0 requests its own (send) gate
\* and then the peer's (receive) gate, party 1 the other way round.
create_hash_ss_gates(o, hs) ==
  [k \in 1..(2 * Len(Flatten(hs))) |->
     Gate(IF o.my_id = 0 THEN k % 2 = 1 ELSE k % 2 = 0, "hash",
          ((((k + 1) \div 2) - 1) \div Len(hs[1])) + 1,
          ((((k + 1) \div 2) - 1) % Len(hs[1])) + 1)]

\* Lines 1295-1301: a repetition of phase 2/3 constructs its backend and the
\* digest input gates.
CreateHashSSCircuitInputs(p) ==
  /\ pc[p] = "p2_loop"
  /\ rep[p] < options[p].num_repetitions
  /\ backends' = [backends EXCEPT ![p] = @ + 1]
  /\ shared_hash' = [shared_hash EXCEPT ![p] =
                       create_hash_ss_circuit_inputs(options[p], hashes[p])]
  /\ backend' = [backend EXCEPT ![p] =
                   TwoPartyBackend(backends'[p], @.run_calls,
                                   create_hash_ss_gates(options[p], hashes[p]))]
  /\ handles' = [handles EXCEPT ![p].shared_hash = backends'[p]]
  /\ pc' = [pc EXCEPT ![p] = "p2_inputs"]
  /\ UNCHANGED <<serverVars, reads, argv, options, rep, comm_layer, setup_calls, shared_data,
                 diffs, hashes, final_results, out>>

\* Lines 1304-1308: every digest byte is fed to its promise.
set_hash_promises(hs, sh) ==
  [sh EXCEPT !.my_hash_promises =
     [h \in 1..Len(hs) |-> [b \in 1..Len(hs[h]) |-> hs[h][b]]]]

\* The owned gates the loop of lines 1304-1308 calls set_value on.
set_hash_value_loop(hs) ==
  [b \in 1..(Len(hs) * (IF Len(hs) = 0 THEN 0 ELSE Len(hs[1]))) |-> b]

SetHashPromises(p) ==
  /\ pc[p] = "p2_inputs"
  /\ shared_hash' = [shared_hash EXCEPT ![p] = set_hash_promises(hashes[p], @)]
  /\ backend' = [backend EXCEPT ![p].set_value_calls =
                   set_value(@, set_hash_value_loop(hashes[p]))]
  /\ pc' = [pc EXCEPT ![p] = "p2_circuit"]
  /\ UNCHANGED <<serverVars, handles, reads, argv, options, rep, comm_layer, setup_calls, backends,
                 shared_data, diffs, hashes, final_results, out>>

\* ------------------------------------------------------ create_ham_dpf_circuit
\* A boolean output wire before the run.
UnsetBit == [ready |-> FALSE, share |-> FALSE]

create_ham_dpf_circuit(sh) ==
  [hash_no \in 1..Len(sh.my_hash_wires) |-> UnsetBit]

\* Line 992: hash_size, the byte positions the loops of the circuit visit.
hash_size == 32

\* The requests one hash pair makes: four per byte position, then the ANDs.
GatesPerHash == 4 * hash_size + (hash_size - 1)

\* A request to the gate factory: the operation, the wire of shared_hash it
\* reads ("" for none) at [hash_no][byte_pos], and the earlier requests whose
\* outputs are its operands (0 for none), numbered in the order made.
make_gate(op, hash_no, byte_pos, wire, left, right) ==
  [op |-> op, hash_no |-> hash_no, byte_pos |-> byte_pos, wire |-> wire,
   left |-> left, right |-> right]

\* The AND fold started from the second byte position.
and_gates_from_second(hash_no) ==
  [a \in 1..(hash_size - 1) |->
     make_gate("AND", hash_no, a + 1, "",
               IF a = 1 THEN (hash_no - 1) * GatesPerHash + 4 * 2
               ELSE (hash_no - 1) * GatesPerHash + 4 * hash_size + a - 1,
               (hash_no - 1) * GatesPerHash + 4 * (a + 1))]

\* Lines 1011-1029: NEG, ADD, HAM and DPF of one byte position; first is the
\* number of the NEG request.
byte_gates(first, hash_no, byte_pos) ==
  << make_gate("NEG", hash_no, byte_pos, "other_hash_wires", 0, 0),
     make_gate("ADD", hash_no, byte_pos, "my_hash_wires", 0, first),
     make_gate("HAM", hash_no, byte_pos, "", first + 1, 0),
     make_gate("DPF", hash_no, byte_pos, "", first + 2, 0) >>

\* Lines 1027-1029: dpf_outputs[hash_no][byte_pos], the number of the DPF
\* request of the byte position.
dpf_outputs(hash_no, byte_pos) ==
  (hash_no - 1) * GatesPerHash + 4 * byte_pos

\* Lines 1036-1042: combined_result starts as dpf_outputs[hash_no][0] and is
\* AND-ed with the DPF output of each later byte position in turn.
and_gates(hash_no) ==
  [a \in 1..(hash_size - 1) |->
     make_gate("AND", hash_no, a + 1, "",
               IF a = 1 THEN dpf_outputs(hash_no, 1)
               ELSE (hash_no - 1) * GatesPerHash + 4 * hash_size + a - 1,
               dpf_outputs(hash_no, a + 1))]

\* Lines 1002-1046: the requests of create_ham_dpf_circuit, in order: hash
\* pair by hash pair, the four requests of each byte position and then the
\* ANDs.  Request k belongs to hash pair hash_no and is number r + 1 there.
ham_dpf_gates(sh) ==
  [k \in 1..(GatesPerHash * Len(sh.my_hash_wires)) |->
     LET hash_no == ((k - 1) \div GatesPerHash) + 1
         r == (k - 1) % GatesPerHash
     IN IF r < 4 * hash_size
        THEN byte_gates(k - (r % 4), hash_no, (r \div 4) + 1)[(r % 4) + 1]
        ELSE and_gates(hash_no)[r - 4 * hash_size + 1]]

\* Line 1313: the circuit is requested of the backend of phase 2/3.
CreateHamDpfCircuit(p) ==
  /\ pc[p] = "p2_circuit"
  /\ final_results' = [final_results EXCEPT ![p] =
                         create_ham_dpf_circuit(shared_hash[p])]
  /\ backend' = [backend EXCEPT ![p].circuit = ham_dpf_gates(shared_hash[p])]
  /\ handles' = [handles EXCEPT ![p].final_results = backend[p].id]
  /\ pc' = [pc EXCEPT ![p] = "p2_run"]
  /\ UNCHANGED <<serverVars, reads, argv, options, rep, comm_layer, setup_calls, backends,
                 shared_data, diffs, hashes, shared_hash, out>>

\* ---------------------------------------------------------- phase 2/3 run
GatesMatch2 ==
  \A p \in Parties :
    Len(Flatten(shared_hash[p].my_hash_promises)) =
      Len(Flatten(shared_hash[Other(p)].other_hash_wires))

\* The digest input gates after the run, seeds s[p] drawn by the owners.
run_hash_inputs(p, s) ==
  LET mine == shared_hash[p]
      peer == shared_hash[Other(p)]
  IN [mine EXCEPT
        !.my_hash_wires =
          [h \in 1..Len(mine.my_hash_wires) |->
             [j \in 1..Len(mine.my_hash_wires[h]) |->
                KeptShare(s[p], (h - 1) * HashSize + j)]],
        !.other_hash_wires =
          [h \in 1..Len(mine.other_hash_wires) |->
             [j \in 1..Len(mine.other_hash_wires[h]) |->
                SentShare(peer.my_hash_promises[h][j], s[Other(p)],
                          (h - 1) * HashSize + j)]]]

\* NEG of the peer's digest share, ADD to the own one: local on the shares.
hash_difference(sh, hash_no, byte_pos) ==
  (sh.my_hash_wires[hash_no][byte_pos]
     + Neg8(sh.other_hash_wires[hash_no][byte_pos])) % ByteMod

\* HAM: the number of bits in which the two values held on the wire differ.
HAM(x0, x1) == PopCount(Xor8(x0, x1))

\* DPF: true iff the distance is zero.
DPF(distance) == distance = 0

is_equal(sh, hash_no, byte_pos) ==
  DPF(HAM(hash_difference(sh[0], hash_no, byte_pos),
          hash_difference(sh[1], hash_no, byte_pos)))

\* Lines 1036-1042: dpf_outputs[hash_no][0] AND-ed with bytes 1 .. 31 in turn.
RECURSIVE combined_result(_, _, _)
combined_result(sh, hash_no, byte_pos) ==
  IF byte_pos = 1 THEN is_equal(sh, hash_no, 1)
  ELSE combined_result(sh, hash_no, byte_pos - 1) /\ is_equal(sh, hash_no, byte_pos)

\* The share of a boolean output the backend hands to party 0.
MaskBit(mask, hash_no) ==
  IF mask = "zero" THEN FALSE ELSE hash_no % 2 = 1

\* The boolean wire final_results[hash_no] after the run: XOR shares of the
\* circuit's value.
run_final_results(p, sh, mask) ==
  [hash_no \in 1..Len(final_results[p]) |->
     [ready |-> TRUE,
      share |-> IF p = 0 THEN MaskBit(mask, hash_no)
                ELSE BoolXor(combined_result(sh, hash_no, HashSize),
                             MaskBit(mask, hash_no))]]

\* Lines 1316-1318: both parties are inside backend.run of phase 2/3.
Phase2Execute ==
  /\ \A p \in Parties : pc[p] = "p2_run" /\ ~options[p].no_run
  /\ GatesMatch2
  /\ Drains(BackendGates)
  /\ \E s \in ShareSeeds, mask \in BoolMasks :
       /\ shared_hash' = [p \in Parties |-> run_hash_inputs(p, PartySeed(s))]
       /\ final_results' = [p \in Parties |->
                              run_final_results(p, shared_hash', mask)]
  /\ backend' = [p \in Parties |-> [backend[p] EXCEPT !.run_calls = @ + 1]]
  /\ pc' = [p \in Parties |-> "p2_post"]
  /\ UNCHANGED <<serverVars, handles, reads, argv, options, rep, comm_layer, setup_calls, backends,
                 shared_data, diffs, hashes, out>>

\* Line 1316: with no_run the backend is not run.
SkipRun2(p) ==
  /\ pc[p] = "p2_run"
  /\ options[p].no_run
  /\ pc' = [pc EXCEPT ![p] = "p2_post"]
  /\ UNCHANGED <<serverVars, backend, handles, reads, argv, options, rep, comm_layer, setup_calls, backends,
                 shared_data, diffs, hashes, shared_hash, final_results, out>>

\* ------------------------------------------------------ print_ham_dpf_results
\* result_wire->get_share().Get(0): the party's own share of the wire.
result_bit(fr, hash_no) == fr[hash_no].share

\* Lines 1155-1163: one line per hash pair, in index order.
result_lines(fr) ==
  [k \in 1..Len(fr) |-> [hash_no |-> k - 1, is_equal |-> result_bit(fr, k)]]

\* A scan that never looks at the first hash pair.
RECURSIVE pattern_found_skips_first(_, _)
pattern_found_skips_first(fr, k) ==
  IF k > Len(fr) THEN FALSE
  ELSE IF k > 1 /\ result_bit(fr, k) THEN TRUE
  ELSE pattern_found_skips_first(fr, k + 1)

\* Lines 1165-1173: the scan for the first set bit.
RECURSIVE pattern_found(_, _)
pattern_found(fr, k) ==
  IF k > Len(fr) THEN FALSE
  ELSE IF result_bit(fr, k) THEN TRUE
  ELSE pattern_found(fr, k + 1)

print_ham_dpf_results(fr) ==
  [lines |-> result_lines(fr), pattern_found |-> pattern_found(fr, 1)]

\* Lines 1321-1327: after the run the results are printed.
\* The wires print_secret_shared_hash_details and print_ham_dpf_results read.
SharedHashWires(sh, fr) ==
  UNION {{sh.my_hash_wires[h][j] : j \in 1..Len(sh.my_hash_wires[h])}
           \cup {sh.other_hash_wires[h][j] : j \in 1..Len(sh.other_hash_wires[h])} :
         h \in 1..Len(sh.my_hash_wires)}
    \cup {IF fr[h].ready THEN 0 ELSE Unset : h \in 1..Len(fr)}

\* Printing whether or not the backend was run.
prints_results_unrun(o) == ~o.json

\* Line 1321: the results are printed unless json or no_run is set.
prints_results(o) == ~o.json /\ ~o.no_run

\* The wires of phase 1 kept and handed to the printing of phase 2/3.
stale_shared_data(h) == h.shared_data

\* Line 1326: print_ham_dpf_results is given the circuit of this repetition.
ham_dpf_circuit(h) == h.final_results

PrintResults(p) ==
  /\ pc[p] = "p2_post"
  /\ out' = [out EXCEPT ![p] =
               IF prints_results(options[p])
               THEN Append(@, print_ham_dpf_results(final_results[p])) ELSE @]
  /\ reads' = [reads EXCEPT ![p] =
                 IF prints_results(options[p])
                 THEN @ \cup {WireRead(2, ham_dpf_circuit(handles[p]), backend[p],
                                       SharedHashWires(shared_hash[p],
                                                       final_results[p]))}
                 ELSE @]
  /\ pc' = [pc EXCEPT ![p] = "p2_sync"]
  /\ UNCHANGED <<serverVars, backend, handles, argv, options, rep, comm_layer, setup_calls, backends,
                 shared_data, diffs, hashes, shared_hash, final_results>>

\* Lines 1329-1333: the sync that ends a repetition of phase 2/3.
Sync2 ==
  /\ \A p \in Parties : pc[p] = "p2_sync"
  /\ rep' = [p \in Parties |-> rep[p] + 1]
  /\ shared_hash' = [p \in Parties |-> NoSharedHash]
  /\ final_results' = [p \in Parties |-> << >>]
  /\ backend' = [p \in Parties |-> Destroyed(backend[p])]
  /\ handles' = [p \in Parties |->
                   [handles[p] EXCEPT !.shared_hash = 0, !.final_results = 0]]
  /\ pc' = [p \in Parties |-> "p2_loop"]
  /\ UNCHANGED <<serverVars, reads, argv, options, comm_layer, setup_calls, backends, shared_data,
                 diffs, hashes, out>>

\* Lines 1335-1345: shutdown after the last repetition, EXIT_SUCCESS.
Shutdown2(p) ==
  /\ pc[p] = "p2_loop"
  /\ rep[p] >= options[p].num_repetitions
  /\ comm_layer' = [comm_layer EXCEPT ![p] = "down"]
  /\ pc' = [pc EXCEPT ![p] = "exit_success"]
  /\ UNCHANGED <<serverVars, backend, handles, reads, argv, options, rep, setup_calls, backends, shared_data, diffs,
                 hashes, shared_hash, final_results, out>>

\* Lines 1276-1279 and 1340-1343: a network operation (connection setup,
\* backend.run, comm_layer->sync) fails: the peer has given up, the two gate
\* streams disagree, or the connection is lost.  The runtime_error unwinds
\* the try block, destroying its locals, and main returns EXIT_FAILURE.
NetworkError(p) ==
  /\ pc[p] \in Waiting
  /\ pc[p] \in {"p1_run", "p2_run"} => ~options[p].no_run
  /\ pc' = [pc EXCEPT ![p] = "exit_failure"]
  /\ backend' = [backend EXCEPT ![p] = Destroyed(@)]
  /\ handles' = [handles EXCEPT ![p] = NoHandles]
  /\ shared_data' = [shared_data EXCEPT ![p] = NoSharedData]
  /\ shared_hash' = [shared_hash EXCEPT ![p] = NoSharedHash]
  /\ final_results' = [final_results EXCEPT ![p] = << >>]
  /\ UNCHANGED <<serverVars, reads, argv, options, rep, comm_layer, setup_calls, backends,
                 diffs, hashes, out>>

Next ==
  \/ \E p \in Parties : ParseProgramOptions(p)
  \/ \E p \in Parties : SetupCommunication(p)
  \/ Connect
  \/ \E p \in Parties : CreateCircuitInputs(p)
  \/ \E p \in Parties : FulfilPromises(p)
  \/ Phase1Execute
  \/ \E p \in Parties : SkipRun1(p)
  \/ \E p \in Parties : PostRun1(p)
  \/ Sync1
  \/ \E p \in Parties : LoopExit1(p)
  \/ FinalSync1
  \/ \E p \in Parties : Shutdown1(p)
  \/ \E p \in Parties : CreateHashSSCircuitInputs(p)
  \/ \E p \in Parties : SetHashPromises(p)
  \/ \E p \in Parties : CreateHamDpfCircuit(p)
  \/ Phase2Execute
  \/ \E p \in Parties : SkipRun2(p)
  \/ \E p \in Parties : PrintResults(p)
  \/ Sync2
  \/ \E p \in Parties : Shutdown2(p)
  \/ \E p \in Parties : NetworkError(p)

Spec == Init /\ [][Next]_vars

\* ================================================================ properties
ThePattern == argv[PatternHolder].pattern.val
TheText == argv[TextHolder].text.val

AllGiven ==
  /\ argv[PatternHolder].pattern.has /\ argv[PatternHolder].text_size.has
  /\ argv[TextHolder].text.has /\ argv[TextHolder].pattern_size.has

\* The lengths each party was told are the true lengths of the peer's string.
ConsistentConfig ==
  /\ AllGiven
  /\ argv[PatternHolder].text_size.val = Len(TheText)
  /\ argv[TextHolder].pattern_size.val = Len(ThePattern)

\* The pattern and text lengths as party p's command line states them.
Given(p) ==
  IF argv[p].role = "pattern_holder"
  THEN argv[p].pattern.has /\ argv[p].text_size.has
  ELSE argv[p].text.has /\ argv[p].pattern_size.has

PatternLength(p) ==
  IF argv[p].role = "pattern_holder" THEN Len(argv[p].pattern.val)
  ELSE argv[p].pattern_size.val

TextLength(p) ==
  IF argv[p].role = "pattern_holder" THEN argv[p].text_size.val
  ELSE Len(argv[p].text.val)

NumWindows == Len(TheText) - Len(ThePattern) + 1

\* Window w (counted from 1) of the text equals the pattern byte for byte.
WindowMatches(w) ==
  \A pos \in 1..Len(ThePattern) : TheText[w + pos - 1] = ThePattern[pos]

Executed == \A p \in Parties : ~argv[p].no_run
HumanReadable == \A p \in Parties : ~argv[p].json

Last(s) == s[Len(s)]

\* Both parties were configured as the protocol intends.
ValidConfig ==
  /\ ConsistentConfig
  /\ 1 <= Len(ThePattern) /\ Len(ThePattern) < Len(TheText)

\* C1: for 1 <= |P| < |T|, |P| <= 16, once both phases have completed (run
\* not skipped) the equality bit a party reports for window w is true exactly
\* when the window equals the pattern, and pattern_found is true exactly when
\* some window matches.
C1_EqualityBitsMatchWindows ==
  (ValidConfig /\ Executed /\ Len(ThePattern) <= RequiredInputSize)
  => \A p \in Parties :
       pc[p] = "exit_success" =>
         /\ Len(out[p]) >= 1
         /\ Len(Last(out[p]).lines) = NumWindows
         /\ \A w \in 1..NumWindows :
              Last(out[p]).lines[w].is_equal = WindowMatches(w)
         /\ Last(out[p]).pattern_found = (\E w \in 1..NumWindows : WindowMatches(w))

\* Both parties have computed their difference vectors in this repetition.
BothDifferencesStored ==
  /\ \A p \in Parties : pc[p] = "p1_sync"
  /\ Executed /\ HumanReadable /\ ConsistentConfig

\* C2: sign convention.  With the PatternHolder storing the negated and the
\* TextHolder the plain t_share - p_share, the two stored bytes of a window
\* position are numerically equal exactly when the window byte equals the
\* pattern byte, for every share drawn: equal at every position of a
\* matching window, different wherever the bytes differ.
C2_SignConvention ==
  BothDifferencesStored =>
    \A w \in 1..NumWindows : \A pos \in 1..Len(ThePattern) :
      (diffs[PatternHolder][w][pos] = diffs[TextHolder][w][pos])
        <=> (TheText[w + pos - 1] = ThePattern[pos])

C2_Witness ==
  /\ BothDifferencesStored
  /\ Len(ThePattern) = MaxPatternLen
  /\ \E w \in 1..NumWindows :
       /\ WindowMatches(w)
       /\ diffs[PatternHolder][w] = diffs[TextHolder][w]
       /\ diffs[TextHolder][w][1] > 0
  /\ \E w \in 1..NumWindows : \E pos \in 1..Len(ThePattern) :
       /\ TheText[w + pos - 1] # ThePattern[pos]
       /\ diffs[PatternHolder][w][pos] # diffs[TextHolder][w][pos]

\* The stages of phase 1 a party has reached hold structures per window.
GatesCreated(p) == pc[p] \in {"p1_inputs", "p1_run", "p1_post", "p1_sync"}
PromisesFulfilled(p) == pc[p] \in {"p1_run", "p1_post", "p1_sync"}
DifferencesComputed(p) ==
  pc[p] = "p1_sync" /\ ~argv[p].no_run /\ ~argv[p].json

\* C3: numWindows = textLength - patternLength + 1, from the lengths alone;
\* gate creation, the TextHolder's windows and the difference computation all
\* use that value, the two parties agree on it, window w of the TextHolder
\* holds text bytes w .. w + patternLength - 1, and lengths 2 and 4 give 3.
C3_NumWindows ==
  /\ \A p \in Parties :
       LET n == TextLength(p) - PatternLength(p) + 1 IN
       /\ GatesCreated(p) =>
            /\ Len(shared_data[p].text_window_wires) = n
            /\ \A w \in 1..n :
                 Len(shared_data[p].text_window_wires[w]) = PatternLength(p)
       /\ (PromisesFulfilled(p) /\ argv[p].role = "text_holder") =>
            /\ Len(shared_data[p].text_window_promises) = n
            /\ \A w \in 1..n :
                 shared_data[p].text_window_promises[w] =
                   [pos \in 1..PatternLength(p) |-> argv[p].text.val[w + pos - 1]]
       /\ DifferencesComputed(p) => Len(diffs[p]) = n /\ Len(hashes[p]) = n
       /\ (ConsistentConfig /\ GatesCreated(p)) => n = NumWindows
  /\ num_windows([pattern_size |-> 2, text_size |-> 4]) = 3
  /\ Len(create_sliding_windows(<<65, 66, 65, 66>>, 2)) = 3

C3_Witness ==
  /\ ConsistentConfig
  /\ Len(ThePattern) = 1
  /\ NumWindows = MaxTextLen
  /\ \A p \in Parties : DifferencesComputed(p) /\ Len(hashes[p]) = MaxTextLen
  /\ shared_data[TextHolder].text_window_promises[MaxTextLen][1] = TheText[MaxTextLen]

\* C4: a configuration with patternLength >= textLength, patternLength = 0
\* or textLength = 0 is rejected: the party never gets past parsing.
C4_ZeroLengthsRejected ==
  \A p \in Parties :
    (/\ Given(p)
     /\ \/ PatternLength(p) >= TextLength(p)
        \/ PatternLength(p) = 0
        \/ TextLength(p) = 0)
    => pc[p] \in {"start", "exit_failure"}

\* A party whose own command line is faulty: its string or the peer's length
\* is missing, or the pattern is not shorter than the text.
BadConfig(p) == ~Given(p) \/ PatternLength(p) >= TextLength(p)

\* C5: with patternLength >= textLength, a missing peer length or a missing
\* own string the process fails before any network connection is attempted:
\* setup_communication is never called and no backend is constructed.
C5_RejectedBeforeNetwork ==
  \A p \in Parties :
    BadConfig(p) =>
      /\ pc[p] \in {"start", "exit_failure"}
      /\ setup_calls[p] = 0
      /\ backends[p] = 0
      /\ comm_layer[p] = "none"

C5_Witness ==
  \E p \in Parties :
    /\ Given(p) /\ PatternLength(p) = TextLength(p) /\ PatternLength(p) > 0
    /\ pc[p] = "exit_failure"
    /\ setup_calls[Other(p)] = 1

\* C6: lengths that are inconsistent between the two parties are detected
\* before any backend is constructed, and the run never starts.
C6_InconsistentLengthsRejected ==
  (/\ AllGiven /\ ~ConsistentConfig
   /\ \A p \in Parties :
        1 <= PatternLength(p) /\ PatternLength(p) < TextLength(p))
  => \A p \in Parties : backends[p] = 0

\* The value of the boolean wire final_results[w]: both shares combined.
Reconstructed(w) ==
  BoolXor(final_results[0][w].share, final_results[1][w].share)

BothPrinted ==
  /\ \A p \in Parties : pc[p] = "p2_sync"
  /\ Executed /\ HumanReadable /\ ValidConfig

\* C7: at the end of phase 2/3 the value each party reads for window w is
\* the reconstructed boolean, so both parties read the same vector and reach
\* the same verdict.
C7_BitsRevealed ==
  BothPrinted =>
    /\ \A p \in Parties : \A w \in 1..Len(final_results[p]) :
         Last(out[p]).lines[w].is_equal = Reconstructed(w)
    /\ Last(out[0]) = Last(out[1])

\* The line of the first window reported equal.
FirstEqualLine(r) ==
  r.lines[CHOOSE i \in 1..Len(r.lines) :
            /\ r.lines[i].is_equal
            /\ \A j \in 1..(i - 1) : ~r.lines[j].is_equal]

C9_RepetitionsAgree ==
  ValidConfig =>
    \A p \in Parties : Len(out[p]) = 2 => out[p][1] = out[p][2]

Phase1Done(p) ==
  pc[p] \in {"p1_final", "p1_shutdown", "p2_setup", "p2_connecting", "p2_loop",
             "p2_inputs", "p2_circuit", "p2_run", "p2_post", "p2_sync",
             "exit_success"}

\* C10: after phase 1 has executed (not skipped) each party holds exactly
\* numWindows digests of exactly 32 bytes, in the human-readable and in the
\* JSON reporting mode alike.
C10_DigestsInBothModes ==
  \A p \in Parties :
    (Phase1Done(p) /\ ~argv[p].no_run /\ ValidConfig) =>
      /\ Len(hashes[p]) = TextLength(p) - PatternLength(p) + 1
      /\ \A h \in 1..Len(hashes[p]) : Len(hashes[p][h]) = HashSize

\* ------------------------------------------------------------ C11 .. C20
\* Every promise of the current backend has had set_value called once.
AllSetOnce(p) ==
  /\ Len(backend[p].set_value_calls) = Len(Owned(backend[p].gates))
  /\ \A g \in 1..Len(backend[p].set_value_calls) :
       backend[p].set_value_calls[g] = 1

\* C11: every promise made by an owned input gate, in phase 1 and in phase 2,
\* is fulfilled exactly once, with the plaintext byte of its own index, before
\* the run call of its backend: never twice, and none is left unfulfilled
\* when run is called.
C11_PromisesFulfilledOnce ==
  \A p \in Parties :
    /\ \A g \in 1..Len(backend[p].set_value_calls) :
         backend[p].set_value_calls[g] <= 1
    /\ pc[p] \in {"p1_run", "p1_post"} =>
         /\ AllSetOnce(p)
         /\ IF argv[p].role = "pattern_holder"
            THEN /\ Len(shared_data[p].pattern_char_promises)
                      = Len(argv[p].pattern.val)
                 /\ \A i \in 1..Len(argv[p].pattern.val) :
                      shared_data[p].pattern_char_promises[i]
                        = argv[p].pattern.val[i]
            ELSE \A w \in 1..Len(shared_data[p].text_window_promises) :
                   \A pos \in 1..Len(shared_data[p].text_window_promises[w]) :
                     shared_data[p].text_window_promises[w][pos]
                       = argv[p].text.val[w + pos - 1]
    /\ pc[p] \in {"p2_run", "p2_post"} =>
         /\ AllSetOnce(p)
         /\ Len(shared_hash[p].my_hash_promises) = Len(hashes[p])
         /\ \A h \in 1..Len(hashes[p]) : \A b \in 1..Len(hashes[p][h]) :
              shared_hash[p].my_hash_promises[h][b] = hashes[p][h][b]

C11_Witness ==
  /\ \A p \in Parties :
       /\ pc[p] = "p2_post" /\ ~argv[p].no_run
       /\ Len(backend[p].set_value_calls) >= 2 * HashSize
       /\ AllSetOnce(p)
  /\ Len(ThePattern) = MaxPatternLen

\* Both parties are inside a repetition of phase 1, their gates created.
BothInPhase1 ==
  \A p \in Parties :
    pc[p] \in {"p1_inputs", "p1_run", "p1_post", "p1_sync"} /\ backend[p].id # 0

Keys(gates) == [k \in 1..Len(gates) |-> gates[k].key]

\* Key a comes before key b: pattern before text, then by window, then by
\* position.
KeyBefore(a, b) ==
  \/ a.kind = "pattern" /\ b.kind = "text"
  \/ a.kind = b.kind /\ a.index < b.index
  \/ a.kind = b.kind /\ a.index = b.index /\ a.pos < b.pos

\* C12: with the lengths agreed, the k-th owned input gate of the owner of a
\* byte and the k-th foreign input gate of the peer carry the same key, and
\* on both sides the pattern gates precede the text gates, which are ordered
\* by window and then position.
C12_SymmetricGateOrder ==
  (BothInPhase1 /\ ConsistentConfig) =>
    \A p \in Parties :
      /\ Keys(Owned(backend[p].gates)) = Keys(Foreign(backend[Other(p)].gates))
      /\ \A k \in 1..(Len(backend[p].gates) - 1) :
           KeyBefore(backend[p].gates[k].key, backend[p].gates[k + 1].key)

C12_Witness ==
  /\ BothInPhase1 /\ ConsistentConfig
  /\ Len(ThePattern) = MaxPatternLen /\ NumWindows >= 2
  /\ Len(Owned(backend[TextHolder].gates)) = MaxPatternLen * NumWindows
  /\ Len(Owned(backend[PatternHolder].gates)) = MaxPatternLen

\* Both parties have built the circuit of phase 2/3 and are about to run it.
BothAtRun2 ==
  /\ \A p \in Parties : pc[p] = "p2_run" /\ ~argv[p].no_run
  /\ Len(backend[0].gates) = Len(backend[1].gates)

\* C13: in the digest re-sharing stage, for every digest byte party 0 creates
\* its owned (send) gate and then the foreign (receive) gate, party 1 the
\* foreign gate and then its owned gate, digest by digest and byte by byte;
\* a backend that resolves gates in creation order then resolves them all:
\* neither party waits on a receive whose send the peer never reaches.
C13_ComplementaryOrderNoDeadlock ==
  BothAtRun2 =>
    /\ \A p \in Parties :
         /\ Len(backend[p].gates) = 2 * Len(Flatten(hashes[p]))
         /\ \A b \in 1..Len(Flatten(hashes[p])) :
              /\ backend[p].gates[2 * b - 1].mine = (p = 0)
              /\ backend[p].gates[2 * b].mine = (p = 1)
              /\ backend[p].gates[2 * b - 1].key = backend[p].gates[2 * b].key
              /\ backend[p].gates[2 * b].key =
                   [kind |-> "hash", index |-> ((b - 1) \div HashSize) + 1,
                    pos |-> ((b - 1) % HashSize) + 1]
    /\ Drains(BackendGates)

C13_Witness ==
  /\ BothAtRun2
  /\ Len(backend[0].gates) >= 4 * HashSize
  /\ Drains(BackendGates)

\* C14: a run has exactly two backend lifetimes whatever the repetition
\* count: one instance for phase 1 and one for phase 2/3.
C14_TwoBackendLifetimes ==
  ValidConfig =>
    \A p \in Parties :
      /\ backends[p] <= 2
      /\ pc[p] = "exit_success" => backends[p] = 2

\* C15: at most one run call per backend instance: none before the promises
\* of phase 1 are fulfilled or before the circuit of phase 2/3 is built, one
\* once run has returned; and while one party is in a run of phase 1 the
\* other is not in a run of phase 2/3.
C15_OneRunPerBackend ==
  \A p \in Parties :
    /\ backend[p].run_calls <= 1
    /\ pc[p] \in {"p1_inputs", "p1_run", "p2_inputs", "p2_circuit", "p2_run"}
         => backend[p].run_calls = 0
    /\ pc[p] = "p1_post" => backend[p].run_calls = 1 /\ AllSetOnce(p)
    /\ (pc[p] = "p2_post" /\ ~argv[p].no_run) =>
         /\ backend[p].run_calls = 1
         /\ AllSetOnce(p)
         /\ Len(final_results[p]) = Len(hashes[p])
    /\ pc[p] \in {"p1_run", "p1_post"}
         => pc[Other(p)] \notin {"p2_run", "p2_post"}

C15_Witness ==
  \E p \in Parties :
    /\ pc[p] = "p2_post" /\ ~argv[p].no_run
    /\ backends[p] = 4
    /\ backend[p].run_calls = 1

InPhase2(p) ==
  pc[p] \in {"p2_setup", "p2_connecting", "p2_loop", "p2_inputs", "p2_circuit",
             "p2_run", "p2_post", "p2_sync", "exit_success"}

\* C16: every wire that is read was made by the backend instance alive at
\* the read; phase 2/3 reads only wires of its own instances, and no
\* structure of phase 1 wires exists once phase 2/3 has begun.
C16_NoStaleHandles ==
  \A p \in Parties :
    /\ \A r \in reads[p] :
         /\ r.live # 0 /\ r.made_by = r.live
         /\ r.phase = 1 => r.made_by <= argv[p].repetitions
         /\ r.phase = 2 => r.made_by > argv[p].repetitions
    /\ InPhase2(p) => handles[p].shared_data = 0 /\ shared_data[p] = NoSharedData
    /\ \A f \in {"shared_data", "shared_hash", "final_results"} :
         handles[p][f] # 0 => handles[p][f] = backend[p].id

C16_Witness ==
  \E p \in Parties :
    /\ \E r \in reads[p] : r.phase = 1 /\ r.made_by = 2
    /\ \E r \in reads[p] : r.phase = 2 /\ r.made_by = 4

\* C17: an error in phase 1 ends the run in failure, phase 2/3 never started
\* and nothing reported; an error in phase 2/3 ends the run in failure
\* without a verdict.
C17_ErrorAbortsWithoutVerdict ==
  \A p \in Parties :
    (pc[p] = "exit_failure" /\ setup_calls[p] >= 1 /\ ValidConfig) =>
      /\ out[p] = << >>
      /\ setup_calls[p] = 1 => backends[p] <= argv[p].repetitions

\* C18: wires are read only after the run call of their backend has
\* returned, and hold a value then; with no_run nothing is ever read.
C18_ReadsAfterRun ==
  \A p \in Parties :
    /\ \A r \in reads[p] : r.run_calls = 1 /\ ~r.unset
    /\ argv[p].no_run => reads[p] = {} /\ out[p] = << >> /\ diffs[p] = << >>

C18_Witness ==
  \E p \in Parties :
    /\ Cardinality(reads[p]) = 4
    /\ pc[p] = "exit_success"

\* C19: with no_run both phases only build their circuits: phase 1 one gate
\* per pattern byte and window byte, phase 2/3 the digest input gates and the
\* equality circuit of every window; run is never called.
C19_DryRunBuildsCircuits ==
  \A p \in Parties :
    (argv[p].no_run /\ ValidConfig) =>
      /\ backend[p].run_calls = 0
      /\ pc[p] \in {"p1_run", "p1_sync"} =>
           Len(backend[p].gates) = Len(ThePattern) * (1 + NumWindows)
      /\ pc[p] \in {"p2_run", "p2_post", "p2_sync"} =>
           /\ Len(backend[p].gates) = 2 * HashSize * NumWindows
           /\ Len(final_results[p]) = NumWindows

\* C27: once a party has built the inputs of phase 1 it holds patternLength
\* pattern wires and, for each of its numWindows windows, patternLength text
\* wires; the PatternHolder has promise slots for the pattern bytes only, the
\* TextHolder for the numWindows x patternLength window bytes only; and with
\* the lengths agreed each party owns as many gates as its peer has foreign
\* gates, for the pattern and for the windows alike.
C27_HandleCounts ==
  /\ \A p \in Parties :
       GatesCreated(p) =>
         LET sd == shared_data[p]
             n == TextLength(p) - PatternLength(p) + 1
         IN /\ Len(sd.pattern_char_wires) = PatternLength(p)
            /\ Len(sd.text_window_wires) = n
            /\ \A w \in 1..n : Len(sd.text_window_wires[w]) = PatternLength(p)
            /\ IF argv[p].role = "pattern_holder"
               THEN /\ Len(sd.pattern_char_promises) = PatternLength(p)
                    /\ sd.text_window_promises = << >>
               ELSE /\ sd.pattern_char_promises = << >>
                    /\ Len(sd.text_window_promises) = n
                    /\ \A w \in 1..n :
                         Len(sd.text_window_promises[w]) = PatternLength(p)
  /\ (BothInPhase1 /\ ConsistentConfig) =>
       /\ Len(Owned(backend[PatternHolder].gates)) = Len(ThePattern)
       /\ Len(Foreign(backend[TextHolder].gates)) = Len(ThePattern)
       /\ Len(Owned(backend[TextHolder].gates)) = NumWindows * Len(ThePattern)
       /\ Len(Foreign(backend[PatternHolder].gates)) = NumWindows * Len(ThePattern)
       /\ \A g \in 1..Len(Owned(backend[PatternHolder].gates)) :
            Owned(backend[PatternHolder].gates)[g].key.kind = "pattern"
       /\ \A g \in 1..Len(Owned(backend[TextHolder].gates)) :
            Owned(backend[TextHolder].gates)[g].key.kind = "text"

\* Both parties have built their inputs for a pattern of two bytes and a
\* text of three: two windows of two wires on each side.
C27_Witness ==
  /\ BothInPhase1 /\ ConsistentConfig
  /\ Len(ThePattern) = 2 /\ NumWindows = 2
  /\ \A p \in Parties :
       /\ Len(shared_data[p].text_window_wires) = 2
       /\ Len(shared_data[p].text_window_wires[2]) = 2
  /\ Len(shared_data[TextHolder].text_window_promises) = 2
  /\ Len(shared_data[PatternHolder].pattern_char_promises) = 2

\* --------------------------------------------- hash_difference_vector alone
MaxFoldLen == 17

FoldLengths == {1, RequiredInputSize, MaxFoldLen, 2 * MaxFoldLen - 1}

FoldBytes == {0, 1, 255}

\* Difference vectors of n bytes, zero except at the first byte, at byte 17
\* (or the last byte of a shorter vector) and at the last byte that is
\* folded onto the first.
FoldVectors(n) ==
  {[i \in 1..n |->
      IF i = 1 THEN a
      ELSE IF i = Min(n, RequiredInputSize + 1) THEN b
      ELSE IF i = 1 + RequiredInputSize * ((n - 1) \div RequiredInputSize) THEN c
      ELSE 0] :
     a \in FoldBytes, b \in FoldBytes, c \in FoldBytes}

\* The two parties hold the difference vectors u and v of one window.
InitDigest ==
  \E n \in FoldLengths : \E u \in FoldVectors(n), v \in FoldVectors(n) :
    /\ diffs = [p \in Parties |-> IF p = 0 THEN <<u>> ELSE <<v>>]
    /\ argv = [p \in Parties |->
                 CommandLine(IF p = 0 THEN "pattern_holder" ELSE "text_holder",
                             Absent, Absent, Absent, Absent, FALSE, FALSE, 1)]
    /\ options = [p \in Parties |-> NullOpt]
    /\ pc = [p \in Parties |-> "hash"]
    /\ rep = [p \in Parties |-> 0]
    /\ comm_layer = [p \in Parties |-> "none"]
    /\ setup_calls = [p \in Parties |-> 0]
    /\ backends = [p \in Parties |-> 0]
    /\ shared_data = [p \in Parties |-> NoSharedData]
    /\ hashes = [p \in Parties |-> << >>]
    /\ shared_hash = [p \in Parties |-> NoSharedHash]
    /\ final_results = [p \in Parties |-> << >>]
    /\ out = [p \in Parties |-> << >>]
    /\ backend = [p \in Parties |-> NoBackend]
    /\ handles = [p \in Parties |-> NoHandles]
    /\ reads = [p \in Parties |-> {}]
    /\ ServerOff

\* Lines 516-538 applied to the vector the party holds.
HashDifferenceVector(p) ==
  /\ pc[p] = "hash"
  /\ hashes' = [hashes EXCEPT ![p] = <<hash_difference_vector(diffs[p][1])>>]
  /\ pc' = [pc EXCEPT ![p] = "hashed"]
  /\ UNCHANGED <<serverVars, backend, handles, reads, argv, options, rep, comm_layer,
                 setup_calls, backends, shared_data, diffs, shared_hash,
                 final_results, out>>

NextDigest == \E p \in Parties : HashDifferenceVector(p)

SpecDigest == InitDigest /\ [][NextDigest]_vars

\* C20: for every pattern length, beyond 16 too, the two parties' difference
\* vectors of a window, when distinct (the window differs from the pattern),
\* have distinct digests, so the window is never reported equal.
C20_DistinctVectorsDistinctDigests ==
  (/\ \A p \in Parties : pc[p] = "hashed"
   /\ diffs[0] # diffs[1])
  => hashes[0] # hashes[1]

\* Bit b of byte x.
BitOf(x, b) == (x \div (2 ^ b)) % 2

\* Bit b of the XOR of the bytes of v at the positions congruent to j
\* modulo 16: the parity of the number of those bytes that have bit b set.
ParityBit(v, j, b) ==
  Cardinality({i \in 1..Len(v) :
                 /\ (i - 1) % 16 = j - 1
                 /\ BitOf(v[i], b) = 1}) % 2

XorOfResidue(v, j) ==
  ParityBit(v, j, 0) + 2 * ParityBit(v, j, 1) + 4 * ParityBit(v, j, 2)
    + 8 * ParityBit(v, j, 3) + 16 * ParityBit(v, j, 4) + 32 * ParityBit(v, j, 5)
    + 64 * ParityBit(v, j, 6) + 128 * ParityBit(v, j, 7)

\* C25: for a difference vector v of any length >= 1, byte j of the folded
\* 16-byte buffer is the XOR of all v[i] with i mod 16 = j; it is v[j] when
\* the vector has at most 16 bytes and 0 from the vector's length on; the
\* digest is the compression of that buffer.
C25_FoldIsXorOfResidues ==
  \A p \in Parties :
    pc[p] = "hashed" =>
      LET v == diffs[p][1]
          buffer == input_buffer(v)
      IN /\ Len(v) >= 1
         /\ Len(buffer) = 16
         /\ \A j \in 1..16 :
              /\ buffer[j] = XorOfResidue(v, j)
              /\ Len(v) <= 16 => buffer[j] = IF j <= Len(v) THEN v[j] ELSE 0
         /\ hashes[p] = <<G_tiny([j \in 1..16 |-> XorOfResidue(v, j)])>>

\* Vectors of more than 32 bytes whose bytes 1, 17 and 33 fold onto the
\* first byte of the buffer.
C25_Witness ==
  /\ \A p \in Parties : pc[p] = "hashed"
  /\ Len(diffs[0][1]) > 32
  /\ diffs[0][1][1] = 1
  /\ diffs[0][1][17] = 255
  /\ diffs[0][1][Len(diffs[0][1])] = 1
  /\ input_buffer(diffs[0][1])[1] = 255
  /\ diffs[1][1][17] = 1
  /\ input_buffer(diffs[1][1])[1] = 1

\* C26: the digest of a window is a function of the folded 16-byte buffer
\* and of nothing else: two vectors with the same folded buffer have the same
\* digest of 32 bytes, two vectors with different folded buffers have
\* different digests; computing it uses neither the backend nor the network.
C26_DigestOfFoldedBuffer ==
  (\A p \in Parties : pc[p] = "hashed") =>
    /\ \A p \in Parties :
         /\ Len(hashes[p]) = 1
         /\ Len(hashes[p][1]) = 32
         /\ backend[p] = NoBackend
         /\ comm_layer[p] = "none"
    /\ (input_buffer(diffs[0][1]) = input_buffer(diffs[1][1]))
         <=> (hashes[0] = hashes[1])

\* Two different vectors of 17 bytes with one folded buffer and one digest.
C26_Witness ==
  /\ \A p \in Parties : pc[p] = "hashed"
  /\ Len(diffs[0][1]) > 16
  /\ diffs[0][1] # diffs[1][1]
  /\ input_buffer(diffs[0][1]) = input_buffer(diffs[1][1])
  /\ hashes[0] = hashes[1]


\* ===================================================== the upload service
\* src/server/index.js with the ML-KEM-768 wrapper of client_cli.mjs 83-199,
\* and its two clients.  A byte string that is only carried and compared
\* (a key, a KEM ciphertext, an IV, a tag) is known by its length and the
\* value it was derived from; the file and its AES ciphertext are sequences
\* of bytes.
MaxTicks == 2

MaxUploads == 2

MaxDownloads == 1

MaxListings == 1

KEM_TTL_MS == 10 * 60 * 1000

PK_LEN == 1184

SK_LEN == 2400

CT_LEN == 1088

SS_LEN == 32

IV_LEN == 12

TAG_LEN == 16

\* The clock advances by a millisecond or by the whole TTL; while the rest
\* of a handler is queued as a microtask, by a millisecond only.
ClockSteps(queue) == IF queue = << >> THEN {1, KEM_TTL_MS} ELSE {1}

\* The files a client uploads, and the name each client gives its file.
FileContents == {<< >>, <<7, 200>>}

FileName(c) == IF c = "cli" THEN <<"a">> ELSE <<"a", " ">>

\* The random bytes a client draws for the encapsulation and for the IV.
ClientCoins(c) == IF c = "cli" THEN 1 ELSE 2

Bytes(len, seed) == [len |-> len, seed |-> seed]

\* Base64: 4 characters for every 3 bytes begun, the last `pad` of them "=".
base64_encode(b) ==
  [chars |-> 4 * ((b.len + 2) \div 3), pad |-> (3 - (b.len % 3)) % 3,
   seed |-> b.seed]

base64_decode(s) == Bytes(3 * (s.chars \div 4) - s.pad, s.seed)

\* App.jsx 8-22.
b64FromBytes(bytes) == base64_encode(bytes)

bytesFromB64(b64) == base64_decode(b64)

\* ML-KEM-768.  A key pair is made from fresh randomness; the ciphertext of
\* an encapsulation names the key pair and the coins, the shared secret is
\* derived from both; decapsulation under another key pair rejects
\* implicitly, with a secret nobody else holds.
Encapsulation(pk, coins) ==
  [ct |-> Bytes(CT_LEN, [k |-> pk.seed, r |-> coins]),
   sharedSecret |-> Bytes(SS_LEN, [k |-> pk.seed, r |-> coins, ok |-> TRUE])]

\* mlkem768.js 82-89 (the CLI client).
mlkem768Encapsulate(pkBytes, coins) == Encapsulation(pkBytes, coins)

\* HKDF: the key is a function of the hash, the input key, the salt, the
\* info string and the length, and of nothing else.
hkdf(hash, ikm, salt_len, info, length) ==
  [len |-> length, hash |-> hash, ikm |-> ikm.seed, salt_len |-> salt_len,
   info |-> info]

\* index.js 42-52.
hkdfAesKey_salted(sharedSecretBytes) ==
  hkdf("sha256", sharedSecretBytes, 16, "pq-upload-aes-256-key", 32)

hkdfAesKey(sharedSecretBytes) ==
  hkdf("sha256", sharedSecretBytes, 0, "pq-upload-aes-256-key", 32)

\* client_cli.mjs 13-21.
cli_hkdfAesKey(ss) == hkdf("sha256", ss, 0, "pq-upload-aes-256-key", 32)

\* App.jsx 33-54: deriveKey with AES-GCM of length 256 bits.
hkdfToAesKey(sharedSecretBytes) ==
  hkdf("sha256", sharedSecretBytes, 0, "pq-upload-aes-256-key", 256 \div 8)

\* AES-256-GCM: a key stream of the key and the IV is added to the plaintext
\* byte by byte; the tag authenticates key, IV and ciphertext.
KeyStream(key, iv, i) ==
  (7 * key.ikm.k + 3 * key.ikm.r + 5 * iv.seed + i
   + (IF key.ikm.ok /\ key.len = 32 /\ key.hash = "sha256" /\ key.salt_len = 0
         /\ key.info = "pq-upload-aes-256-key" THEN 0 ELSE 1)) % ByteMod

GcmTag(key, iv, ciphertext) ==
  Bytes(TAG_LEN, [key |-> key, iv |-> iv.seed, ct |-> ciphertext])

aes_256_gcm_encrypt(key, iv, plaintext) ==
  LET c == [i \in 1..Len(plaintext) |->
              (plaintext[i] + KeyStream(key, iv, i)) % ByteMod]
  IN [iv |-> iv, ciphertext |-> c, tag |-> GcmTag(key, iv, c)]

\* client_cli.mjs 23-30: a random 12-byte IV.
encryptAes256Gcm(key32, plaintext, iv_seed) ==
  aes_256_gcm_encrypt(key32, Bytes(IV_LEN, iv_seed), plaintext)

\* App.jsx 56-61: crypto.subtle.encrypt returns ciphertext||tag, the tag
\* being the last 16 bytes.
splitGcmTag(cipherWithTag) ==
  [ciphertext |-> cipherWithTag.ciphertext, tag |-> cipherWithTag.tag]

\* index.js 54-60: final() throws when the tag does not authenticate.
decryptAes256Gcm_unauthenticated(key32, iv, ciphertext, tag) ==
  [threw |-> FALSE,
   plaintext |-> [i \in 1..Len(ciphertext) |->
                    (ciphertext[i] + ByteMod - KeyStream(key32, iv, i)) % ByteMod]]

decryptAes256Gcm(key32, iv, ciphertext, tag) ==
  IF tag # GcmTag(key32, iv, ciphertext)
  THEN [threw |-> TRUE, plaintext |-> << >>]
  ELSE [threw |-> FALSE,
        plaintext |-> [i \in 1..Len(ciphertext) |->
                         (ciphertext[i] + ByteMod
                          - KeyStream(key32, iv, i)) % ByteMod]]

\* index.js 38-40: every character outside [a-zA-Z0-9._-] becomes "_".
safeName_unchanged(name) ==
  IF name = << >> THEN <<"f", "i", "l", "e", ".", "b", "i", "n">> ELSE name

safeName(name) ==
  LET n == IF name = << >> THEN <<"f", "i", "l", "e", ".", "b", "i", "n">>
           ELSE name
  IN [i \in 1..Len(n) |-> IF n[i] \in {" ", "/"} THEN "_" ELSE n[i]]

\* client_cli.mjs 32-34.
safeBaseName(p) == IF p = << >> THEN <<"f", "i", "l", "e", ".", "b", "i", "n">>
                   ELSE p

\* uuid(): an identifier never returned before.
uuid(calls) == calls + 1

\* index.js 31-36.
cleanupKemKeys_keeps_all(keys, t) == keys

cleanupKemKeys(keys, t) ==
  [keyId \in {k \in DOMAIN keys : ~(t - keys[k].createdAt > KEM_TTL_MS)} |->
     keys[keyId]]

\* Map.set and Map.delete.
MapSet(m, key, value) ==
  [k \in DOMAIN m \cup {key} |-> IF k = key THEN value ELSE m[k]]

MapDelete(m, key) == [k \in DOMAIN m \ {key} |-> m[k]]

\* ------------------------------------------------------------ the WASM heap
\* _malloc returns a pointer to a buffer that is not in use and does not
\* initialize it.
malloc(h, size) ==
  LET ptr == CHOOSE q \in 1..(Cardinality(h.live) + 1) : q \notin h.live
  IN [ptr |-> ptr,
      heap |-> [h EXCEPT !.live = @ \cup {ptr},
                         !.mem = MapSet(@, ptr, Bytes(size, 0)),
                         !.mallocs = @ + 1]]

\* _free takes back a buffer that malloc returned; to free a pointer that is
\* not in use is an error of the caller.
free(h, ptr) ==
  IF ptr \in h.live
  THEN [h EXCEPT !.live = @ \ {ptr}, !.mem = MapDelete(@, ptr),
                 !.frees = @ + 1]
  ELSE [h EXCEPT !.frees = @ + 1, !.faults = @ \cup {"free"}]

\* heap.set(bytes, ptr), and the stores of a routine into its out buffer.
heap_set(h, bytes, ptr) ==
  IF ptr \in h.live /\ bytes.len <= h.mem[ptr].len
  THEN [h EXCEPT !.mem = MapSet(@, ptr, bytes)]
  ELSE [h EXCEPT !.faults = @ \cup {"set"}]

\* heap.slice(ptr, ptr + len): a copy of the bytes of the buffer; the bytes
\* of memory that has been given back are not the buffer's any more.
heap_slice(h, ptr) ==
  IF ptr \in h.live THEN h.mem[ptr] ELSE Bytes(0, 0)

\* What a wrapper returns when it throws.
NoBytes == Bytes(0, 0)

\* client_cli.mjs 150-169, after `await getModule()`: two buffers, the
\* routine, the copies of the keys, and the frees in `finally`.  rc is the
\* return code of _mlkem768_keypair_export and seed its randomness.
mlkemKeypair(h, rc, seed) ==
  LET pkPtr == malloc(h, PK_LEN)
      skPtr == malloc(pkPtr.heap, SK_LEN)
      ran == IF rc = 0
             THEN heap_set(heap_set(skPtr.heap, Bytes(PK_LEN, seed), pkPtr.ptr),
                           Bytes(SK_LEN, seed), skPtr.ptr)
             ELSE skPtr.heap
      pk == heap_slice(ran, pkPtr.ptr)
      sk == heap_slice(ran, skPtr.ptr)
      freed == free(free(ran, pkPtr.ptr), skPtr.ptr)
  IN IF rc # 0
     THEN [threw |-> TRUE, pk |-> NoBytes, sk |-> NoBytes, heap |-> freed]
     ELSE [threw |-> FALSE, pk |-> pk, sk |-> sk, heap |-> freed]

\* mlkem.js 88-117, after `await loadModule()`: the public key must have
\* PK_LEN bytes; three buffers, the routine, the copies of ciphertext and
\* secret, and the frees in `finally`.
mlkemEncapsulate(h, rc, serverPkBytes, coins) ==
  IF serverPkBytes.len # PK_LEN
  THEN [threw |-> TRUE, ct |-> NoBytes, sharedSecret |-> NoBytes, heap |-> h]
  ELSE LET pkPtr == malloc(h, PK_LEN)
           ctPtr == malloc(pkPtr.heap, CT_LEN)
           ssPtr == malloc(ctPtr.heap, SS_LEN)
           set == heap_set(ssPtr.heap, serverPkBytes, pkPtr.ptr)
           kem == Encapsulation(heap_slice(set, pkPtr.ptr), coins)
           ran == IF rc = 0
                  THEN heap_set(heap_set(set, kem.ct, ctPtr.ptr),
                                kem.sharedSecret, ssPtr.ptr)
                  ELSE set
           ct == heap_slice(ran, ctPtr.ptr)
           sharedSecret == heap_slice(ran, ssPtr.ptr)
           freed == free(free(free(ran, pkPtr.ptr), ctPtr.ptr), ssPtr.ptr)
       IN IF rc # 0
          THEN [threw |-> TRUE, ct |-> NoBytes, sharedSecret |-> NoBytes,
                heap |-> freed]
          ELSE [threw |-> FALSE, ct |-> ct, sharedSecret |-> sharedSecret,
                heap |-> freed]

\* client_cli.mjs 171-199, after `await getModule()`.  Without `finally`
\* the buffers would be freed on the path that returns only.
mlkemDecapsulate_frees_on_return(h, rc, ctBytes, skBytes) ==
  IF ctBytes.len # CT_LEN \/ skBytes.len # SK_LEN
  THEN [threw |-> TRUE, ss |-> NoBytes, heap |-> h]
  ELSE LET ctPtr == malloc(h, CT_LEN)
           skPtr == malloc(ctPtr.heap, SK_LEN)
           ssPtr == malloc(skPtr.heap, SS_LEN)
           set == heap_set(heap_set(ssPtr.heap, ctBytes, ctPtr.ptr),
                           skBytes, skPtr.ptr)
           ct == heap_slice(set, ctPtr.ptr)
           sk == heap_slice(set, skPtr.ptr)
           ran == heap_set(set,
                           Bytes(SS_LEN, [k |-> ct.seed.k, r |-> ct.seed.r,
                                          ok |-> ct.seed.k = sk.seed]),
                           ssPtr.ptr)
           freed == free(free(free(ran, ctPtr.ptr), skPtr.ptr), ssPtr.ptr)
       IN IF rc # 0
          THEN [threw |-> TRUE, ss |-> NoBytes, heap |-> set]
          ELSE [threw |-> FALSE, ss |-> heap_slice(ran, ssPtr.ptr),
                heap |-> freed]

\* The ciphertext must have CT_LEN bytes and the secret key SK_LEN; three
\* buffers, the routine, the copy of the secret, and the frees in `finally`.
mlkemDecapsulate(h, rc, ctBytes, skBytes) ==
  IF ctBytes.len # CT_LEN \/ skBytes.len # SK_LEN
  THEN [threw |-> TRUE, ss |-> NoBytes, heap |-> h]
  ELSE LET ctPtr == malloc(h, CT_LEN)
           skPtr == malloc(ctPtr.heap, SK_LEN)
           ssPtr == malloc(skPtr.heap, SS_LEN)
           set == heap_set(heap_set(ssPtr.heap, ctBytes, ctPtr.ptr),
                           skBytes, skPtr.ptr)
           ct == heap_slice(set, ctPtr.ptr)
           sk == heap_slice(set, skPtr.ptr)
           ran == IF rc = 0
                  THEN heap_set(set,
                                Bytes(SS_LEN,
                                      [k |-> ct.seed.k, r |-> ct.seed.r,
                                       ok |-> ct.seed.k = sk.seed]),
                                ssPtr.ptr)
                  ELSE set
           ss == heap_slice(ran, ssPtr.ptr)
           freed == free(free(free(ran, ctPtr.ptr), skPtr.ptr), ssPtr.ptr)
       IN IF rc # 0
          THEN [threw |-> TRUE, ss |-> NoBytes, heap |-> freed]
          ELSE [threw |-> FALSE, ss |-> ss, heap |-> freed]

\* ---------------------------------------------------------- the event loop
\* A handler runs as one task.  An await whose promise has settled queues
\* the rest of the handler as a microtask, and the loop takes the next task
\* only when no microtask is left.
NextTaskMayRun_anytime(queue) == TRUE

NextTaskMayRun(queue) == queue = << >>

\* promise is the module promise the continuation awaits: the n-th that a
\* loader has made.
Continuation(kind, c, r) == [kind |-> kind, c |-> c, r |-> r, promise |-> 0]

\* client_cli.mjs 105-148, getModule.  Without the test of modulePromise
\* every call would run the loader.
getModule_uncached(cont) ==
  [wasm_module |-> "loading", microtasks |-> microtasks,
   loading |-> Append(loading,
                      [cont EXCEPT !.promise = module_loads["server"] + 1]),
   module_loads |-> [module_loads EXCEPT !["server"] = @ + 1]]

\* The first call runs the loader and caches its promise; a call made while
\* the module loads is given the same promise and waits for it; a call made
\* when the promise has settled, resolved or rejected, continues as a
\* microtask.
getModule(cont) ==
  IF wasm_module = "unloaded"
  THEN [wasm_module |-> "loading", microtasks |-> microtasks,
        loading |-> Append(loading,
                           [cont EXCEPT !.promise = module_loads["server"] + 1]),
        module_loads |-> [module_loads EXCEPT !["server"] = @ + 1]]
  ELSE IF wasm_module = "loading"
  THEN [wasm_module |-> wasm_module, microtasks |-> microtasks,
        loading |-> Append(loading,
                           [cont EXCEPT !.promise = module_loads["server"]]),
        module_loads |-> module_loads]
  ELSE [wasm_module |-> wasm_module,
        microtasks |-> Append(microtasks,
                              [cont EXCEPT !.promise = module_loads["server"]]),
        loading |-> loading, module_loads |-> module_loads]

\* mlkem.js 44-82, loadModule, applied to the browser's module promise m.
loadModule_uncached(m) ==
  [module |-> "loading", loads |-> m.loads + 1, promise |-> m.loads + 1]

loadModule(m) ==
  IF m.module = "unloaded"
  THEN [module |-> "loading", loads |-> m.loads + 1, promise |-> m.loads + 1]
  ELSE [module |-> m.module, loads |-> m.loads, promise |-> m.loads]

\* ------------------------------------------------------------- the clients
NoForm == [has |-> {}, keyId |-> 0,
           kemCtB64 |-> base64_encode(Bytes(0, [k |-> 0, r |-> 0])),
           ivB64 |-> base64_encode(Bytes(0, 0)),
           tagB64 |-> base64_encode(Bytes(0, 0)),
           originalName |-> << >>, cipher |-> << >>]

AllFields == {"keyId", "kemCtB64", "ivB64", "tagB64", "originalName", "cipher"}

\* client_cli.mjs 48-69.
main_form(cl, coins, iv_seed) ==
  LET pk == base64_decode(cl.pkB64)
      kem == mlkem768Encapsulate(pk, coins)
      key32 == cli_hkdfAesKey(kem.sharedSecret)
      enc == encryptAes256Gcm(key32, cl.file, iv_seed)
  IN [has |-> AllFields, keyId |-> cl.keyId,
      kemCtB64 |-> base64_encode(kem.ct),
      ivB64 |-> base64_encode(enc.iv),
      tagB64 |-> base64_encode(enc.tag),
      originalName |-> safeBaseName(cl.name),
      cipher |-> enc.ciphertext]

\* App.jsx 101-136; kem is what `await mlkemEncapsulate(pk)` at 108
\* returned.
uploadFile_form(cl, kem, iv_seed) ==
  LET aesKey == hkdfToAesKey(kem.sharedSecret)
      iv == Bytes(IV_LEN, iv_seed)
      split == splitGcmTag(aes_256_gcm_encrypt(aesKey, iv, cl.file))
  IN IF kem.threw THEN NoForm
     ELSE [has |-> AllFields, keyId |-> cl.keyId,
           kemCtB64 |-> b64FromBytes(kem.ct),
           ivB64 |-> b64FromBytes(iv),
           tagB64 |-> b64FromBytes(split.tag),
           originalName |-> cl.name,
           cipher |-> split.ciphertext]

upload_form(c, cl, kem, coins, iv_seed) ==
  IF c = "cli" THEN main_form(cl, coins, iv_seed)
  ELSE uploadFile_form(cl, kem, iv_seed)

\* What a second sender of a form may have changed in it.
Alterations == {"same", "bad_tag", "no_iv", "short_iv", "short_tag",
                "short_iv_tag", "short_ct"}

Altered(form, how) ==
  CASE how = "same" -> form
    [] how = "bad_tag" ->
         [form EXCEPT !.tagB64 = [@ EXCEPT !.seed = [@ EXCEPT !.iv = 0]]]
    [] how = "no_iv" -> [form EXCEPT !.has = @ \ {"ivB64"}]
    [] how = "short_iv" ->
         [form EXCEPT !.ivB64 = base64_encode(Bytes(IV_LEN - 4, @.seed))]
    [] how = "short_tag" ->
         [form EXCEPT !.tagB64 = base64_encode(Bytes(TAG_LEN - 4, @.seed))]
    [] how = "short_iv_tag" ->
         [form EXCEPT !.ivB64 = base64_encode(Bytes(IV_LEN - 4, @.seed)),
                      !.tagB64 = base64_encode(Bytes(TAG_LEN - 4, @.seed))]
    [] how = "short_ct" ->
         [form EXCEPT !.kemCtB64 = base64_encode(Bytes(CT_LEN - 1, @.seed))]

NoKemObj == [pk |-> Bytes(0, 0), sk |-> Bytes(0, 0), createdAt |-> 0]

NoAnswer == [status |-> 0, error |-> "", id |-> 0, name |-> << >>]

\* A POST /upload-pq on its way to the server.  sender is the client whose
\* upload it is, or "net" for a form that is presented again; the fields
\* after answer are the history of the handler.
NewRequest(form, sender) ==
  [form |-> form, sender |-> sender, pc |-> "sent", kemObj |-> NoKemObj,
   answer |-> NoAnswer, began |-> FALSE, key_expired |-> FALSE,
   after_success |-> FALSE, raced |-> FALSE, decapsulated |-> FALSE,
   swept |-> FALSE, left_stale |-> FALSE, key_known |-> FALSE,
   allocated |-> 0]

Answer(status, error) == [NoAnswer EXCEPT !.status = status, !.error = error]

\* The other requests that present the keyId of request i.
SameKeyId(i) ==
  {j \in DOMAIN requests \ {i} :
     /\ "keyId" \in requests[j].form.has
     /\ "keyId" \in requests[i].form.has
     /\ requests[j].form.keyId = requests[i].form.keyId}

\* A key of the Map is older than the TTL at time t.
HoldsStaleKey(keys, t) ==
  \E k \in DOMAIN keys : t - keys[k].createdAt > KEM_TTL_MS

ServerUnchanged == UNCHANGED <<kemKeys, issued, files, uploads_plain, uuid_calls>>

LoopUnchanged ==
  UNCHANGED <<wasm_module, microtasks, loading, module_loads>>

\* ------------------------------------------------------------ the handlers
Tick ==
  /\ ticks < MaxTicks
  /\ \E d \in ClockSteps(microtasks) : now' = now + d
  /\ ticks' = ticks + 1
  /\ ServerUnchanged
  /\ LoopUnchanged
  /\ UNCHANGED <<matcherVars, deployment, wasm_call, heap, browser_module, listings, client, requests, downloads>>

\* index.js 66-69 / client_cli.mjs 44, App.jsx 97: GET /kem-pubkey is
\* handled up to `await mlkemKeypair()`.  A client whose request died with the
\* module asks once more.
GetKemPubkey(c) ==
  /\ deployment.variant = "pq"
  /\ \/ client[c].pc = "idle"
     \/ /\ client[c].pc = "kem_failed"
        /\ wasm_module = "failed"
        /\ client[c].module_at_call # "failed"
  /\ c = "browser" => browser_module # "unloaded"
  /\ NextTaskMayRun(microtasks)
  /\ kemKeys' = cleanupKemKeys(kemKeys, now)
  /\ LET m == getModule(Continuation("kem", c, 0))
     IN /\ wasm_module' = m.wasm_module
        /\ microtasks' = m.microtasks
        /\ loading' = m.loading
        /\ module_loads' = m.module_loads
  /\ client' = [client EXCEPT
                  ![c].pc = "kem_wait",
                  ![c].module_at_call = wasm_module,
                  ![c].swept = ~HoldsStaleKey(kemKeys', now)]
  /\ UNCHANGED <<matcherVars, deployment, wasm_call, heap, browser_module, listings, now, ticks, issued, files, uploads_plain,
                 uuid_calls, requests, downloads>>

\* client_cli.mjs 113-144: the module has been imported and instantiated.
ModuleLoaded ==
  /\ wasm_module = "loading"
  /\ NextTaskMayRun(microtasks)
  /\ wasm_module' = "ready"
  /\ microtasks' = microtasks \o loading
  /\ loading' = << >>
  /\ ServerUnchanged
  /\ UNCHANGED <<matcherVars, deployment, wasm_call, heap, browser_module, listings, now, ticks,
                 client, requests, downloads, module_loads>>

\* client_cli.mjs 113-135: the import or the factory rejects, or an export
\* is missing; modulePromise stays the rejected promise, and the calls that
\* wait for it are rejected.
ModuleFailed ==
  /\ wasm_module = "loading"
  /\ NextTaskMayRun(microtasks)
  /\ wasm_module' = "failed"
  /\ microtasks' = microtasks \o loading
  /\ loading' = << >>
  /\ ServerUnchanged
  /\ UNCHANGED <<matcherVars, deployment, wasm_call, heap, browser_module, listings, now, ticks,
                 client, requests, downloads, module_loads>>

\* index.js 69-79: the key pair is made, stored under a new keyId with the
\* time of storing, and sent to the client.
KemPubkeyResume ==
  /\ microtasks # << >>
  /\ Head(microtasks).kind = "kem"
  /\ \E rc \in deployment.return_codes :
       LET c == Head(microtasks).c
           kp == mlkemKeypair(heap["server"], rc, uuid_calls + 1)
           keyId == uuid(uuid_calls)
       IN IF wasm_module = "failed"
          THEN /\ client' = [client EXCEPT ![c].pc = "kem_failed"]
               /\ ServerUnchanged
               /\ UNCHANGED heap
          ELSE IF kp.threw
          THEN /\ client' = [client EXCEPT ![c].pc = "kem_failed"]
               /\ ServerUnchanged
               /\ heap' = [heap EXCEPT !["server"] = kp.heap]
          ELSE /\ uuid_calls' = keyId
               /\ kemKeys' = MapSet(kemKeys, keyId,
                                    [pk |-> kp.pk, sk |-> kp.sk,
                                     createdAt |-> now])
               /\ issued' = MapSet(issued, keyId, now)
               /\ client' = [client EXCEPT
                               ![c].pc = "has_key",
                               ![c].module_at_call = "unloaded",
                               ![c].keyId = keyId,
                               ![c].pkB64 = base64_encode(kp.pk),
                               ![c].ttlSeconds = KEM_TTL_MS \div 1000,
                               ![c].left_stale = HoldsStaleKey(kemKeys', now)]
               /\ heap' = [heap EXCEPT !["server"] = kp.heap]
               /\ UNCHANGED <<files, uploads_plain>>
  /\ microtasks' = Tail(microtasks)
  /\ UNCHANGED <<matcherVars, deployment, wasm_call, browser_module, listings,
                 now, ticks, wasm_module, loading, module_loads, requests,
                 downloads>>

\* client_cli.mjs 48-71, App.jsx 101-138: encapsulate, derive the key,
\* encrypt and send the form.
PostUploadPq(c) ==
  /\ Len(requests) < MaxUploads
  /\ IF c = "browser"
     THEN /\ client[c].pc \in {"has_key", "init_wait"}
          /\ browser_module \in {"ready", "failed"}
     ELSE client[c].pc = "has_key"
  /\ \E rc \in deployment.return_codes :
       LET cached == [module |-> browser_module,
                      loads |-> module_loads["browser"]]
           init == IF c = "browser" /\ client[c].pc = "has_key"
                   THEN loadModule(cached) ELSE cached
           m == IF c = "browser"
                THEN loadModule([module |-> init.module, loads |-> init.loads])
                ELSE cached
           kem == IF c = "browser"
                  THEN mlkemEncapsulate(heap["browser"], rc,
                                        bytesFromB64(client[c].pkB64),
                                        ClientCoins(c))
                  ELSE [threw |-> FALSE, heap |-> heap["browser"]]
           form == upload_form(c, client[c], kem, ClientCoins(c),
                               ClientCoins(c))
       IN /\ browser_module' = m.module
          /\ module_loads' = [module_loads EXCEPT !["browser"] = m.loads]
          /\ IF c = "browser" /\ m.module # "ready"
             THEN /\ client' = [client EXCEPT ![c].pc = "failed"]
                  /\ UNCHANGED <<requests, heap>>
             ELSE IF kem.threw
             THEN /\ client' = [client EXCEPT ![c].pc = "failed"]
                  /\ heap' = [heap EXCEPT !["browser"] = kem.heap]
                  /\ UNCHANGED requests
             ELSE /\ client' = [client EXCEPT
                                  ![c].pc = "posted",
                                  ![c].awaits = IF c = "browser"
                                                THEN m.promise ELSE @]
                  /\ heap' = [heap EXCEPT !["browser"] = kem.heap]
                  /\ requests' = Append(requests, NewRequest(form, c))
  /\ ServerUnchanged
  /\ UNCHANGED <<matcherVars, deployment, wasm_call, listings, now, ticks,
                 downloads, wasm_module, microtasks, loading>>

\* A form that was sent is presented to the server once more, as it was or
\* altered.
Resend(i) ==
  /\ i \in DOMAIN requests
  /\ requests[i].sender # "net"
  /\ Len(requests) < MaxUploads
  /\ \E how \in Alterations :
       requests' = Append(requests,
                          NewRequest(Altered(requests[i].form, how), "net"))
  /\ ServerUnchanged
  /\ LoopUnchanged
  /\ UNCHANGED <<matcherVars, deployment, wasm_call, heap, browser_module, listings, now, ticks, client, downloads>>

\* index.js 96-110: the checks of POST /upload-pq before
\* `await mlkemDecapsulate(...)`, in the order of the code.
upload_pq_checks_key_first(form, keys) ==
  IF form.keyId \notin DOMAIN keys
  THEN Answer(404, "KEM key expired/invalid")
  ELSE IF {"keyId", "kemCtB64", "ivB64", "tagB64", "cipher"} \ form.has # {}
  THEN Answer(400, "Missing fields")
  ELSE IF base64_decode(form.ivB64).len # 12
  THEN Answer(400, "IV must be 12 bytes")
  ELSE IF base64_decode(form.tagB64).len # 16
  THEN Answer(400, "Tag must be 16 bytes")
  ELSE NoAnswer

upload_pq_checks(form, keys) ==
  IF {"keyId", "kemCtB64", "ivB64", "tagB64", "cipher"} \ form.has # {}
  THEN Answer(400, "Missing fields")
  ELSE IF form.keyId \notin DOMAIN keys
  THEN Answer(404, "KEM key expired/invalid")
  ELSE IF base64_decode(form.ivB64).len # 12
  THEN Answer(400, "IV must be 12 bytes")
  ELSE IF base64_decode(form.tagB64).len # 16
  THEN Answer(400, "Tag must be 16 bytes")
  ELSE NoAnswer

UploadPq(i) ==
  /\ i \in DOMAIN requests
  /\ requests[i].pc = "sent"
  /\ NextTaskMayRun(microtasks)
  /\ LET form == requests[i].form
         keys == cleanupKemKeys(kemKeys, now)
         answer == upload_pq_checks(form, keys)
         began == [requests[i] EXCEPT
                     !.began = TRUE,
                     !.after_success =
                        \E j \in SameKeyId(i) : requests[j].answer.status = 200,
                     !.raced =
                        \E j \in SameKeyId(i) : requests[j].pc # "done",
                     !.swept = ~HoldsStaleKey(keys, now),
                     !.key_known = form.keyId \in DOMAIN keys,
                     !.key_expired =
                        /\ form.keyId \in DOMAIN issued
                        /\ now - issued[form.keyId] > KEM_TTL_MS]
     IN /\ kemKeys' = keys
        /\ IF answer # NoAnswer
           THEN /\ requests' =
                     [requests EXCEPT
                        ![i] = [began EXCEPT
                                  !.pc = "done", !.answer = answer,
                                  !.left_stale = HoldsStaleKey(keys, now)]]
                /\ LoopUnchanged
           ELSE LET m == getModule(Continuation("upload", "net", i))
                IN /\ requests' =
                        [requests EXCEPT
                           ![i] = [began EXCEPT !.pc = "awaiting",
                                                !.kemObj = keys[form.keyId]]]
                   /\ wasm_module' = m.wasm_module
                   /\ microtasks' = m.microtasks
                   /\ loading' = m.loading
                   /\ module_loads' = m.module_loads
  /\ UNCHANGED <<matcherVars, deployment, wasm_call, heap, browser_module, listings, now, ticks, issued, files, uploads_plain,
                 uuid_calls, client, downloads>>

\* index.js 113-148: decapsulate, derive the key, decrypt, store the file,
\* delete the key and answer; a throw is answered 500.
UploadPqResume ==
  /\ microtasks # << >>
  /\ Head(microtasks).kind = "upload"
  /\ \E rc \in deployment.return_codes :
       LET i == Head(microtasks).r
           form == requests[i].form
           kemCt == base64_decode(form.kemCtB64)
           iv == base64_decode(form.ivB64)
           tag == base64_decode(form.tagB64)
           rejected == wasm_module = "failed"
           decap == IF rejected
                    THEN [threw |-> TRUE, ss |-> NoBytes,
                          heap |-> heap["server"]]
                    ELSE mlkemDecapsulate(heap["server"], rc, kemCt,
                                          requests[i].kemObj.sk)
           key32 == hkdfAesKey(decap.ss)
           dec == decryptAes256Gcm(key32, iv, form.cipher, tag)
           id == uuid(uuid_calls)
           originalName == safeName(IF "originalName" \in form.has
                                    THEN form.originalName
                                    ELSE << >>)
           storedName == [id |-> id, name |-> originalName]
       IN /\ heap' = [heap EXCEPT !["server"] = decap.heap]
          /\ IF decap.threw \/ dec.threw
             THEN /\ requests' =
                       [requests EXCEPT
                          ![i].pc = "done",
                          ![i].decapsulated = ~decap.threw,
                          ![i].allocated =
                             decap.heap.mallocs - heap["server"].mallocs,
                          ![i].answer = Answer(500, "Decrypt/upload failed"),
                          ![i].left_stale = HoldsStaleKey(kemKeys, now)]
                  /\ ServerUnchanged
             ELSE /\ uuid_calls' = id
                  /\ uploads_plain' = MapSet(uploads_plain, storedName,
                                             dec.plaintext)
                  /\ files' = MapSet(files, id,
                                     [id |-> id,
                                      originalName |-> originalName,
                                      storedName |-> storedName,
                                      size |-> Len(dec.plaintext),
                                      uploadedAt |-> now])
                  /\ kemKeys' = MapDelete(kemKeys, form.keyId)
                  /\ issued' = issued
                  /\ requests' =
                       [requests EXCEPT
                          ![i].pc = "done",
                          ![i].decapsulated = TRUE,
                          ![i].allocated =
                             decap.heap.mallocs - heap["server"].mallocs,
                          ![i].answer = [status |-> 200, error |-> "",
                                         id |-> id, name |-> originalName],
                          ![i].left_stale = HoldsStaleKey(kemKeys', now)]
  /\ microtasks' = Tail(microtasks)
  /\ UNCHANGED <<matcherVars, deployment, wasm_call, browser_module, listings,
                 now, ticks, wasm_module, loading, module_loads, client,
                 downloads>>

\* index.js 157-165: GET /files/:id.
get_file(id) ==
  IF id \notin DOMAIN files
  THEN [id |-> id, status |-> 404, error |-> "Not found", body |-> << >>,
        filename |-> << >>]
  ELSE IF files[id].storedName \notin DOMAIN uploads_plain
  THEN [id |-> id, status |-> 404, error |-> "Missing on disk",
        body |-> << >>, filename |-> << >>]
  ELSE [id |-> id, status |-> 200, error |-> "",
        body |-> uploads_plain[files[id].storedName],
        filename |-> files[id].originalName]

GetFile(id) ==
  /\ NextTaskMayRun(microtasks)
  /\ deployment.variant \in {"pq", "tls"}
  /\ Cardinality(downloads) < MaxDownloads
  /\ downloads' = downloads \cup {get_file(id)}
  /\ ServerUnchanged
  /\ LoopUnchanged
  /\ UNCHANGED <<matcherVars, deployment, wasm_call, heap, browser_module, listings, now, ticks, client, requests>>

\* index.js 152-154 (300-302, 395-397), GET /files: Array.from(files.values()),
\* the entries in the order of their insertion, which is the order of ids.
files_values(fs) ==
  [k \in 1..Cardinality(DOMAIN fs) |->
     fs[CHOOSE id \in DOMAIN fs :
          Cardinality({j \in DOMAIN fs : j <= id}) = k]]

GetFiles ==
  /\ NextTaskMayRun(microtasks)
  /\ deployment.variant \in {"pq", "tls"}
  /\ Cardinality(listings) < MaxListings
  /\ listings' = listings \cup {files_values(files)}
  /\ ServerUnchanged
  /\ LoopUnchanged
  /\ UNCHANGED <<matcherVars, deployment, wasm_call, heap, browser_module, now, ticks, client, requests,
                 downloads>>

\* index.js 361-392, POST /upload of the TLS variant: a request without a
\* file is answered 400; otherwise the file is written under id__name and
\* its metadata entered in files.
PostUpload(c) ==
  /\ deployment.variant = "tls"
  /\ client[c].pc = "idle"
  /\ NextTaskMayRun(microtasks)
  /\ \E attached \in BOOLEAN :
       IF ~attached
       THEN /\ client' = [client EXCEPT ![c].pc = "refused"]
            /\ ServerUnchanged
       ELSE LET id == uuid(uuid_calls)
                originalName == safeName(client[c].name)
                storedName == [id |-> id, name |-> originalName]
            IN /\ uuid_calls' = id
               /\ uploads_plain' = MapSet(uploads_plain, storedName,
                                          client[c].file)
               /\ files' = MapSet(files, id,
                                  [id |-> id, originalName |-> originalName,
                                   storedName |-> storedName,
                                   size |-> Len(client[c].file),
                                   uploadedAt |-> now])
               /\ client' = [client EXCEPT ![c].pc = "uploaded"]
               /\ UNCHANGED <<kemKeys, issued>>
  /\ LoopUnchanged
  /\ UNCHANGED <<matcherVars, deployment, wasm_call, heap, browser_module, listings, now, ticks, requests,
                 downloads>>

\* The service is started and each client has a file to upload.
ServiceStarted ==
  /\ argv = [p \in Parties |->
               CommandLine(IF p = 0 THEN "pattern_holder" ELSE "text_holder",
                           Absent, Absent, Absent, Absent, FALSE, FALSE, 1)]
  /\ options = [p \in Parties |-> NullOpt]
  /\ pc = [p \in Parties |-> "off"]
  /\ rep = [p \in Parties |-> 0]
  /\ comm_layer = [p \in Parties |-> "none"]
  /\ setup_calls = [p \in Parties |-> 0]
  /\ backends = [p \in Parties |-> 0]
  /\ shared_data = [p \in Parties |-> NoSharedData]
  /\ diffs = [p \in Parties |-> << >>]
  /\ hashes = [p \in Parties |-> << >>]
  /\ shared_hash = [p \in Parties |-> NoSharedHash]
  /\ final_results = [p \in Parties |-> << >>]
  /\ out = [p \in Parties |-> << >>]
  /\ backend = [p \in Parties |-> NoBackend]
  /\ handles = [p \in Parties |-> NoHandles]
  /\ reads = [p \in Parties |-> {}]
  /\ now = 0
  /\ ticks = 0
  /\ microtasks = << >>
  /\ loading = << >>
  /\ kemKeys = << >>
  /\ issued = << >>
  /\ files = << >>
  /\ uploads_plain = << >>
  /\ uuid_calls = 0
  /\ \E content \in FileContents :
       client = [c \in Clients |->
                   [NoClient EXCEPT !.pc = "idle",
                                    !.file = IF c = "cli" THEN content
                                             ELSE <<255, 0, 1>>,
                                    !.name = FileName(c)]]
  /\ requests = << >>
  /\ downloads = {}
  /\ listings = {}
  /\ heap = [side \in Sides |-> EmptyHeap]
  /\ wasm_call = NoCall

\* The variant with the post-quantum upload, its WASM build sound; the page
\* of the browser has mounted and loaded its module.
InitServer ==
  /\ ServiceStarted
  /\ deployment = PqDeployment
  /\ wasm_module = "unloaded"
  /\ module_loads = [side \in Sides |-> IF side = "browser" THEN 1 ELSE 0]
  /\ browser_module = "ready"

NextServer ==
  \/ Tick
  \/ \E c \in Clients : GetKemPubkey(c)
  \/ ModuleLoaded
  \/ KemPubkeyResume
  \/ \E c \in Clients : PostUploadPq(c)
  \/ \E i \in 1..MaxUploads : Resend(i)
  \/ \E i \in 1..MaxUploads : UploadPq(i)
  \/ UploadPqResume
  \/ \E id \in 1..uuid_calls : GetFile(id)
  \/ GetFiles

SpecServer == InitServer /\ [][NextServer]_vars

\* App.jsx 81-87: the page mounts and calls mlkemInit().
Mount ==
  /\ deployment.variant = "pq"
  /\ browser_module = "unloaded"
  /\ LET m == loadModule([module |-> browser_module,
                          loads |-> module_loads["browser"]])
     IN /\ browser_module' = m.module
        /\ module_loads' = [module_loads EXCEPT !["browser"] = m.loads]
        /\ client' = [client EXCEPT !["browser"].awaits = m.promise]
  /\ ServerUnchanged
  /\ UNCHANGED <<matcherVars, deployment, wasm_call, heap, listings, now,
                 ticks, requests, downloads, wasm_module, microtasks, loading>>

\* mlkem.js 47-79: the loader of the browser resolves, or it rejects (the
\* fetch, the import or the factory fails, or an export is missing).
BrowserModuleSettles ==
  /\ browser_module = "loading"
  /\ \E outcome \in {"ready", "failed"} : browser_module' = outcome
  /\ ServerUnchanged
  /\ LoopUnchanged
  /\ UNCHANGED <<matcherVars, deployment, wasm_call, heap, listings, now,
                 ticks, client, requests, downloads>>

\* App.jsx 107: uploadFile calls mlkemInit() while the module loads.
BrowserInit ==
  /\ client["browser"].pc = "has_key"
  /\ browser_module = "loading"
  /\ LET m == loadModule([module |-> browser_module,
                          loads |-> module_loads["browser"]])
     IN /\ browser_module' = m.module
        /\ module_loads' = [module_loads EXCEPT !["browser"] = m.loads]
        /\ client' = [client EXCEPT !["browser"].pc = "init_wait",
                                    !["browser"].awaits = m.promise]
  /\ ServerUnchanged
  /\ UNCHANGED <<matcherVars, deployment, wasm_call, heap, listings, now,
                 ticks, requests, downloads, wasm_module, microtasks, loading>>

\* The post-quantum variant with a WASM build whose routines may return an
\* error code.
FaultyPqDeployment == [variant |-> "pq", return_codes |-> {0, 1}]

\* The two modules pqkem and mlkem.js loaded on their own, their wrappers
\* called directly.
WrapperDeployment == [variant |-> "wrappers", return_codes |-> {0, 1}]

\* Every variant of the service, and the wrappers on their own.
Deployments == {FaultyPqDeployment, TlsDeployment, WrapperDeployment}

MaxCalls == 2

\* The arguments of the direct calls: byte strings of the right length and
\* of a wrong one.
CallCts ==
  {Bytes(len, [k |-> 1, r |-> 1]) : len \in {CT_LEN - 1, CT_LEN}}

CallSks == {Bytes(len, seed) : len \in {SK_LEN, SK_LEN + 1}, seed \in {1, 2}}

CallPks == {Bytes(len, 1) : len \in {PK_LEN - 1, PK_LEN}}

\* client_cli.mjs 150-199, mlkem.js 88-117: a wrapper is called on the
\* loaded module and returns or throws.
WasmCall ==
  /\ deployment.variant = "wrappers"
  /\ wasm_call.calls < MaxCalls
  /\ \E fn \in {"mlkemKeypair", "mlkemDecapsulate", "mlkemEncapsulate"},
        rc \in deployment.return_codes,
        ct \in CallCts, sk \in CallSks, pk \in CallPks :
       LET side == IF fn = "mlkemEncapsulate" THEN "browser" ELSE "server"
           kp == mlkemKeypair(heap[side], rc, 1)
           decap == mlkemDecapsulate(heap[side], rc, ct, sk)
           kem == mlkemEncapsulate(heap[side], rc, pk, 1)
           after == CASE fn = "mlkemKeypair" -> kp.heap
                      [] fn = "mlkemDecapsulate" -> decap.heap
                      [] fn = "mlkemEncapsulate" -> kem.heap
       IN /\ heap' = [heap EXCEPT ![side] = after]
          /\ wasm_call' =
               CASE fn = "mlkemKeypair" ->
                      [NoCall EXCEPT !.fn = fn, !.calls = wasm_call.calls + 1,
                                     !.rc = rc, !.threw = kp.threw,
                                     !.out = <<kp.pk, kp.sk>>,
                                     !.before = heap[side], !.after = after]
                 [] fn = "mlkemDecapsulate" ->
                      [NoCall EXCEPT !.fn = fn, !.calls = wasm_call.calls + 1,
                                     !.rc = rc, !.ct = ct, !.sk = sk,
                                     !.threw = decap.threw,
                                     !.out = <<decap.ss>>,
                                     !.before = heap[side], !.after = after]
                 [] fn = "mlkemEncapsulate" ->
                      [NoCall EXCEPT !.fn = fn, !.calls = wasm_call.calls + 1,
                                     !.rc = rc, !.pk = pk,
                                     !.threw = kem.threw,
                                     !.out = <<kem.ct, kem.sharedSecret>>,
                                     !.before = heap[side], !.after = after]
  /\ ServerUnchanged
  /\ LoopUnchanged
  /\ UNCHANGED <<matcherVars, deployment, browser_module, listings, now,
                 ticks, client, requests, downloads>>

\* The service is started and the page of the browser has not mounted yet;
\* or the two modules are loaded and nothing else runs.
InitService ==
  /\ ServiceStarted
  /\ deployment \in Deployments
  /\ IF deployment.variant = "wrappers"
     THEN /\ wasm_module = "ready"
          /\ browser_module = "ready"
          /\ module_loads = [side \in Sides |-> 1]
     ELSE /\ wasm_module = "unloaded"
          /\ browser_module = "unloaded"
          /\ module_loads = [side \in Sides |-> 0]

\* The routes, the loaders and the wrappers, the requests arriving within
\* one millisecond.
NextService ==
  \/ \E c \in Clients : GetKemPubkey(c)
  \/ ModuleLoaded
  \/ ModuleFailed
  \/ KemPubkeyResume
  \/ Mount
  \/ BrowserModuleSettles
  \/ BrowserInit
  \/ \E c \in Clients : PostUploadPq(c)
  \/ \E i \in 1..MaxUploads : Resend(i)
  \/ \E i \in 1..MaxUploads : UploadPq(i)
  \/ UploadPqResume
  \/ \E c \in Clients : PostUpload(c)
  \/ \E id \in 1..uuid_calls : GetFile(id)
  \/ GetFiles
  \/ WasmCall

SpecService == InitService /\ [][NextService]_vars

\* ------------------------------------------------- properties of the service
\* The uploads of the clients themselves that the server has answered.
AnsweredUploads ==
  {i \in DOMAIN requests : requests[i].sender \in Clients /\ requests[i].pc = "done"}

\* Request i presents every field the handler requires.
WellFormed(i) ==
  {"keyId", "kemCtB64", "ivB64", "tagB64", "cipher"} \subseteq requests[i].form.has

\* C21: a client's upload that reaches the server within the TTL of its key,
\* the key not having been used by another request, is answered 200; the
\* file stored under the returned id is byte-identical to the client's file,
\* its recorded size is the file's length, and GET /files/:id returns it.
C21_UploadRoundTrip ==
  \A i \in AnsweredUploads :
    LET a == requests[i].answer
        file == client[requests[i].sender].file
    IN /\ (/\ ~requests[i].key_expired
           /\ \A j \in SameKeyId(i) : requests[j].answer.status # 200)
          => a.status = 200
       /\ a.status = 200 =>
            /\ a.id \in DOMAIN files
            /\ files[a.id].storedName \in DOMAIN uploads_plain
            /\ uploads_plain[files[a.id].storedName] = file
            /\ files[a.id].size = Len(file)
            /\ \A d \in downloads :
                 d.id = a.id => d.status = 200 /\ d.body = file

\* Both clients have uploaded within the TTL, and a non-empty file has been
\* downloaded again.
C21_Witness ==
  /\ \A c \in Clients :
       \E i \in AnsweredUploads :
         requests[i].sender = c /\ requests[i].answer.status = 200
  /\ \E i \in AnsweredUploads, d \in downloads :
       /\ d.id = requests[i].answer.id
       /\ requests[i].answer.status = 200
       /\ d.body # << >>

BegunUploads == {i \in DOMAIN requests : requests[i].began /\ WellFormed(i)}

ShareBytes == {0, 1, 128, 255}

SecondWindowBytes == {0, 255}

\* The backend of a repetition whose run has returned.
RunBackend(o) ==
  [TwoPartyBackend(1, 0, create_circuit_inputs_gates(o)) EXCEPT !.run_calls = 1]

InitDifference ==
  /\ argv = [p \in Parties |->
               IF p = 0
               THEN CommandLine("pattern_holder", Some(<<65>>), Absent, Absent,
                                Some(2), FALSE, FALSE, 1)
               ELSE CommandLine("text_holder", Absent, Some(<<65, 66>>),
                                Some(1), Absent, FALSE, FALSE, 1)]
  /\ options = [p \in Parties |-> parse_program_options(argv[p], p)]
  /\ pc = [p \in Parties |-> "p1_post"]
  /\ rep = [p \in Parties |-> 0]
  /\ comm_layer = [p \in Parties |-> "up"]
  /\ setup_calls = [p \in Parties |-> 1]
  /\ backends = [p \in Parties |-> 1]
  /\ \E ps \in [Parties -> ShareBytes], ts \in [Parties -> ShareBytes],
        us \in [Parties -> SecondWindowBytes] :
       shared_data = [p \in Parties |->
                        [create_circuit_inputs(options[p]) EXCEPT
                           !.pattern_char_wires = <<ps[p]>>,
                           !.text_window_wires = << <<ts[p]>>, <<us[p]>> >>]]
  /\ diffs = [p \in Parties |-> << >>]
  /\ hashes = [p \in Parties |-> << >>]
  /\ shared_hash = [p \in Parties |-> NoSharedHash]
  /\ final_results = [p \in Parties |-> << >>]
  /\ out = [p \in Parties |-> << >>]
  /\ backend = [p \in Parties |-> RunBackend(options[p])]
  /\ handles = [p \in Parties |-> [NoHandles EXCEPT !.shared_data = 1]]
  /\ reads = [p \in Parties |-> {}]
  /\ ServerOff

NextDifference == \E p \in Parties : PostRun1(p)

SpecDifference == InitDifference /\ [][NextDifference]_vars

\* The byte of 8 bits that is congruent to n modulo 256.
Wrap8(n) == ((n % 256) + 256) % 256

\* C24: for every window w and position i a party's stored difference is
\* computed from its own two shares: d = (t_share[w][i] - p_share[i]) mod 256,
\* stored as (-d) mod 256 by the PatternHolder and as d by the TextHolder,
\* wrapping at 8 bits (0 stays 0, 128 stays 128); the step uses no gate and
\* no run of the backend.
C24_LocalDifference ==
  \A p \in Parties :
    pc[p] = "p1_sync" =>
      /\ Len(diffs[p]) = num_windows(options[p])
      /\ \A w \in 1..num_windows(options[p]) :
           /\ Len(diffs[p][w]) = options[p].pattern_size
           /\ \A i \in 1..options[p].pattern_size :
                LET d == Wrap8(shared_data[p].text_window_wires[w][i]
                               - shared_data[p].pattern_char_wires[i])
                IN /\ diffs[p][w][i] \in 0..255
                   /\ diffs[p][w][i] =
                        IF options[p].role = "pattern_holder"
                        THEN Wrap8(0 - d) ELSE d
                   /\ (options[p].role = "pattern_holder" /\ d \in {0, 128})
                        => diffs[p][w][i] = d
      /\ backend[p] = RunBackend(options[p])
      /\ comm_layer[p] = "up"

\* Both parties have computed; the PatternHolder met the differences 0, 128
\* and one that negation changes, the TextHolder a difference that wrapped.
C24_Witness ==
  /\ \A p \in Parties : pc[p] = "p1_sync"
  /\ Wrap8(shared_data[0].text_window_wires[1][1]
           - shared_data[0].pattern_char_wires[1]) = 128
  /\ diffs[0][1][1] = 128
  /\ diffs[0][2][1] = 1
  /\ shared_data[0].text_window_wires[2][1] = 255
  /\ shared_data[1].text_window_wires[1][1] < shared_data[1].pattern_char_wires[1]
  /\ diffs[1][1][1] = 129

\* ==================================================== the equality circuit
\* The program from the return of the phase-1 run to its exit, on the shares
\* of InitDifference, with no network fault.
NextCircuit ==
  \/ \E p \in Parties : PostRun1(p)
  \/ Sync1
  \/ \E p \in Parties : LoopExit1(p)
  \/ FinalSync1
  \/ \E p \in Parties : Shutdown1(p)
  \/ \E p \in Parties : SetupCommunication(p)
  \/ Connect
  \/ \E p \in Parties : CreateHashSSCircuitInputs(p)
  \/ \E p \in Parties : SetHashPromises(p)
  \/ \E p \in Parties : CreateHamDpfCircuit(p)
  \/ Phase2Execute
  \/ \E p \in Parties : PrintResults(p)
  \/ Sync2
  \/ \E p \in Parties : Shutdown2(p)

SpecCircuit == InitDifference /\ [][NextCircuit]_vars

\* create_ham_dpf_circuit has just returned to party p.
CircuitBuilt(p) == pc[p] = "p2_run"

\* Request number k of window hash_no in the log of party p.
CircuitGate(p, hash_no, k) ==
  backend[p].circuit[(hash_no - 1) * GatesPerHash + k]

\* Both parties have run the equality circuit.
BothRanCircuit ==
  /\ \A p \in Parties : pc[p] \in {"p2_post", "p2_sync"}
  /\ Executed

\* C28: per window and for each of the 32 byte positions the circuit requests
\* NEG of the peer's share wire, ADD of the own share wire and the negation,
\* HAM of the sum and DPF of the distance, in that order; the 32 DPF outputs
\* of a window are combined by exactly 31 AND gates folded left to right
\* from byte 0; and after the run the boolean of a window is true iff all 32
\* digest bytes of the two parties are equal.
C28_EqualityCircuit ==
  /\ \A p \in Parties : CircuitBuilt(p) =>
       /\ Len(backend[p].circuit) = (4 * 32 + 31) * Len(final_results[p])
       /\ \A hash_no \in 1..Len(final_results[p]) :
            LET base == (hash_no - 1) * (4 * 32 + 31)
                g(k) == CircuitGate(p, hash_no, k)
            IN /\ \A byte_pos \in 1..32 :
                    LET k == 4 * (byte_pos - 1) IN
                    /\ g(k + 1).op = "NEG"
                    /\ g(k + 1).wire = "other_hash_wires"
                    /\ g(k + 2).op = "ADD"
                    /\ g(k + 2).wire = "my_hash_wires"
                    /\ g(k + 2).right = base + k + 1
                    /\ g(k + 3).op = "HAM"
                    /\ g(k + 3).left = base + k + 2
                    /\ g(k + 4).op = "DPF"
                    /\ g(k + 4).left = base + k + 3
                    /\ \A j \in 1..4 : /\ g(k + j).hash_no = hash_no
                                       /\ g(k + j).byte_pos = byte_pos
               /\ Cardinality({k \in 1..(4 * 32 + 31) : g(k).op = "AND"}) = 31
               /\ \A a \in 1..31 :
                    /\ g(4 * 32 + a).op = "AND"
                    /\ g(4 * 32 + a).left =
                         (IF a = 1 THEN base + 4 ELSE base + 4 * 32 + a - 1)
                    /\ g(4 * 32 + a).right = base + 4 * (a + 1)
  /\ BothRanCircuit =>
       \A hash_no \in 1..Len(final_results[0]) :
         /\ \A p \in Parties : final_results[p][hash_no].ready
         /\ Reconstructed(hash_no) <=>
              (\A byte_pos \in 1..32 :
                 hashes[0][hash_no][byte_pos] = hashes[1][hash_no][byte_pos])

\* Two windows were compared, one with equal digests and one without.
C28_Witness ==
  /\ BothRanCircuit
  /\ Len(final_results[0]) = 2
  /\ \A p \in Parties : Len(backend[p].circuit) = 2 * (4 * 32 + 31)
  /\ \E v, w \in 1..2 :
       /\ Reconstructed(v) /\ hashes[0][v] = hashes[1][v]
       /\ ~Reconstructed(w) /\ hashes[0][w] # hashes[1][w]

\* ------------------------------------------------- sizes of the re-sharing
\* create_hash_ss_circuit_inputs has returned to party p and its backend is
\* alive.
DigestGatesBuilt(p) ==
  pc[p] \in {"p2_inputs", "p2_circuit", "p2_run", "p2_post", "p2_sync"}

\* The digest gates of window w among the requests gs.
WindowGates(gs, w) ==
  SelectSeq(gs, LAMBDA g : g.key.kind = "hash" /\ g.key.index = w)

\* The sizes of the re-sharing at party p.
SizesAgreeAt(p) ==
  /\ \A w \in 1..NumWindows :
       /\ Len(Owned(WindowGates(backend[p].gates, w))) = 32
       /\ Len(Foreign(WindowGates(backend[p].gates, w))) = 32
  /\ \A hash_no \in 1..Len(shared_hash[p].my_hash_wires) :
       /\ Len(shared_hash[p].my_hash_wires[hash_no]) >= hash_size
       /\ Len(shared_hash[p].other_hash_wires[hash_no]) >= hash_size
  /\ Len(shared_hash[p].other_hash_wires) >= Len(shared_hash[p].my_hash_wires)

\* The sizes of the re-sharing agree between the parties.
SizesAgreeAcross ==
  /\ Len(backend[0].gates) = Len(backend[1].gates)
  /\ \A p \in Parties :
       Keys(Owned(backend[p].gates)) = Keys(Foreign(backend[Other(p)].gates))

\* C29: for every window a party creates exactly 32 owned and 32 foreign
\* digest gates, the 32 byte positions the equality circuit indexes, so the
\* circuit indexes no missing wire; both parties create the same number of
\* windows' worth of digest gates and every owned gate has its foreign gate
\* at the peer.
C29_ResharingSizesAgree ==
  ValidConfig =>
    /\ \A p \in Parties : DigestGatesBuilt(p) => SizesAgreeAt(p)
    /\ (\A p \in Parties : DigestGatesBuilt(p)) => SizesAgreeAcross

\* ============================================================== liveness
\* The runs of consistently configured parties on a network without faults:
\* the actions of Next but NetworkError.  Each party is a process of its own
\* that keeps running, so a step that stays possible is eventually taken.
LivePattern == <<65>>

LiveText == <<65, 66>>

InitLive ==
  /\ Init
  /\ ValidConfig
  /\ ThePattern = LivePattern
  /\ TheText = LiveText

NextLive ==
  \/ \E p \in Parties : ParseProgramOptions(p)
  \/ \E p \in Parties : SetupCommunication(p)
  \/ Connect
  \/ \E p \in Parties : CreateCircuitInputs(p)
  \/ \E p \in Parties : FulfilPromises(p)
  \/ Phase1Execute
  \/ \E p \in Parties : SkipRun1(p)
  \/ \E p \in Parties : PostRun1(p)
  \/ Sync1
  \/ \E p \in Parties : LoopExit1(p)
  \/ FinalSync1
  \/ \E p \in Parties : Shutdown1(p)
  \/ \E p \in Parties : CreateHashSSCircuitInputs(p)
  \/ \E p \in Parties : SetHashPromises(p)
  \/ \E p \in Parties : CreateHamDpfCircuit(p)
  \/ Phase2Execute
  \/ \E p \in Parties : SkipRun2(p)
  \/ \E p \in Parties : PrintResults(p)
  \/ Sync2
  \/ \E p \in Parties : Shutdown2(p)

SpecLive == InitLive /\ [][NextLive]_vars /\ WF_vars(NextLive)

\* Party p has returned from backend.run of phase 1.
PassedRun1(p) == pc[p] = "p1_post" /\ backend[p].run_calls = 1

\* Party p has shut down and released the communication layer of phase 1.
TornDown(p) == comm_layer[p] = "released" /\ setup_calls[p] = 1

\* Party p has just been connected through its second communication layer.
Reconnected(p) ==
  /\ comm_layer[p] = "up" /\ setup_calls[p] = 2
  /\ pc[p] = "p2_loop" /\ rep[p] = 0

\* Party p has returned from backend.run of phase 2/3.
PassedRun2(p) == pc[p] = "p2_post" /\ backend[p].run_calls = 1

\* Party p has returned EXIT_SUCCESS after printing a verdict.
SucceededWithVerdict(p) ==
  /\ pc[p] = "exit_success"
  /\ Len(out[p]) = argv[p].repetitions
  /\ Last(out[p]).pattern_found \in BOOLEAN

\* The configuration of the amended statement: consistent, human-readable
\* reporting, the run not skipped.
LiveConfig == ValidConfig /\ Executed /\ HumanReadable

\* The original statement: any consistent configuration with the same flags
\* on both parties ends with a verdict.
C30_AnyFlags ==
  ValidConfig ~> (\A p \in Parties : SucceededWithVerdict(p))

\* C30: with a consistent configuration, human-readable reporting and the
\* run not skipped, on a network without faults, each party eventually
\* returns from the run of phase 1, then tears its connection down, then is
\* connected again, then returns from the run of phase 2/3, and then both
\* parties have terminated successfully with a verdict.
C30_Liveness ==
  \A p \in Parties :
    /\ (LiveConfig /\ pc[p] = "start") ~> PassedRun1(p)
    /\ (LiveConfig /\ PassedRun1(p)) ~> TornDown(p)
    /\ (LiveConfig /\ TornDown(p)) ~> Reconnected(p)
    /\ (LiveConfig /\ Reconnected(p)) ~> PassedRun2(p)
    /\ (LiveConfig /\ PassedRun2(p)) ~>
         (\A q \in Parties : SucceededWithVerdict(q))

C30_Witness ==
  /\ LiveConfig
  /\ \A p \in Parties :
       /\ SucceededWithVerdict(p)
       /\ setup_calls[p] = 2
       /\ \E r \in reads[p] : r.phase = 1 /\ r.run_calls = 1
       /\ \E r \in reads[p] : r.phase = 2 /\ r.run_calls = 1


\* ======================================================= refused uploads
\* The decoded fields of the form of request i.
FormIv(i) == base64_decode(requests[i].form.ivB64)

FormTag(i) == base64_decode(requests[i].form.tagB64)

FormKemCt(i) == base64_decode(requests[i].form.kemCtB64)

\* Request i passes the four checks that precede the decapsulation.
PassesChecks(i) ==
  /\ WellFormed(i)
  /\ requests[i].key_known
  /\ FormIv(i).len = 12
  /\ FormTag(i).len = 16

\* The handler of request i went on to decapsulate.
Attempted(i) ==
  \/ requests[i].pc = "awaiting"
  \/ requests[i].answer.status \in {200, 500}

\* The tag of request i was not computed by a client over its ciphertext.
Forged(i) == FormTag(i).seed.iv = 0

\* The handler of request i ends in this step without storing the upload.
EndsRefused(i) ==
  /\ requests[i].pc # "done"
  /\ requests'[i].pc = "done"
  /\ requests'[i].answer.status # 200

\* C31: a POST /upload-pq that is answered 400, 404 or 500 leaves the files
\* map and the upload directory as they were and removes no key but those
\* the TTL cleanup at its start removes; a ciphertext of the wrong length
\* and a tag that does not authenticate are answered 500.
C31_RefusedUploadChangesNothing ==
  /\ [][\A i \in DOMAIN requests :
          EndsRefused(i) =>
            /\ requests'[i].answer.status \in {400, 404, 500}
            /\ files' = files
            /\ uploads_plain' = uploads_plain
            /\ uuid_calls' = uuid_calls
            /\ kemKeys' = IF requests[i].pc = "sent"
                          THEN [k \in {k \in DOMAIN kemKeys :
                                         now - kemKeys[k].createdAt
                                           <= KEM_TTL_MS} |-> kemKeys[k]]
                          ELSE kemKeys]_vars
  /\ [](\A i \in DOMAIN requests :
          (/\ requests[i].pc = "done"
           /\ PassesChecks(i)
           /\ (FormKemCt(i).len # CT_LEN \/ Forged(i)))
            => requests[i].answer = Answer(500, "Decrypt/upload failed"))

\* An upload whose tag does not authenticate was answered 500 while its key
\* was in kemKeys and within the TTL; the key is still there and no file
\* has been stored.
C31_Witness ==
  \E i \in DOMAIN requests :
    /\ requests[i].answer.status = 500
    /\ Forged(i)
    /\ FormKemCt(i).len = CT_LEN
    /\ requests[i].form.keyId \in DOMAIN kemKeys
    /\ files = << >>
    /\ uploads_plain = << >>

\* C32: POST /upload-pq checks in a fixed order and answers the first check
\* that fails: a missing field 400 "Missing fields", then a keyId that is
\* not in kemKeys 404, then an IV that is not 12 bytes 400, then a tag that
\* is not 16 bytes 400; it goes on to decapsulate exactly when all four pass.
C32_ValidationOrder ==
  \A i \in DOMAIN requests :
    /\ requests[i].began => (Attempted(i) <=> PassesChecks(i))
    /\ ~requests[i].began => requests[i].kemObj = NoKemObj
    /\ (requests[i].began /\ ~PassesChecks(i)) =>
         /\ requests[i].pc = "done"
         /\ requests[i].kemObj = NoKemObj
         /\ ~requests[i].decapsulated
         /\ requests[i].answer =
              IF ~WellFormed(i) THEN Answer(400, "Missing fields")
              ELSE IF ~requests[i].key_known
              THEN Answer(404, "KEM key expired/invalid")
              ELSE IF FormIv(i).len # 12
              THEN Answer(400, "IV must be 12 bytes")
              ELSE Answer(400, "Tag must be 16 bytes")

\* An upload with a short IV, a short tag and a keyId that an earlier upload
\* had used up was answered 404, and nothing was decapsulated for it.
C32_Witness ==
  \E i \in DOMAIN requests :
    /\ requests[i].pc = "done"
    /\ WellFormed(i)
    /\ requests[i].after_success
    /\ ~requests[i].key_known
    /\ FormIv(i).len # 12
    /\ FormTag(i).len # 16
    /\ requests[i].answer = Answer(404, "KEM key expired/invalid")


\* ======================================================== the files map
\* The ids that this step enters in the files map.
NewIds == DOMAIN files' \ DOMAIN files

\* The handler of upload request i stores its file in this step.
StoresUploadPq(i) ==
  /\ requests[i].pc # "done"
  /\ requests'[i].pc = "done"
  /\ requests'[i].answer.status = 200

\* POST /upload stores the file of client c in this step.
StoresUpload(c) == client[c].pc = "idle" /\ client'[c].pc = "uploaded"

\* stored is the name given with every character outside [a-zA-Z0-9._-]
\* replaced by "_".
Sanitized(stored, given) ==
  /\ Len(stored) = Len(given)
  /\ \A k \in 1..Len(given) :
       stored[k] = IF given[k] \in {" ", "/"} THEN "_" ELSE given[k]

\* C33: the files map only grows.  A step keeps every entry as it is; an
\* upload that succeeds adds exactly one entry, under a new id, whose id
\* field is its key and whose storedName is the id, "__" and the sanitized
\* original name, and no other step adds any; GET /files answers with
\* exactly the entries of the map, in the order of insertion; GET /files/:id
\* answers 404 "Not found" for an id that is not in the map.
C33_FilesOnlyGrow ==
  [][/\ DOMAIN files \subseteq DOMAIN files'
     /\ \A id \in DOMAIN files : files'[id] = files[id]
     /\ \A i \in DOMAIN requests :
          StoresUploadPq(i) =>
            /\ NewIds = {requests'[i].answer.id}
            /\ Sanitized(files'[requests'[i].answer.id].originalName,
                         requests[i].form.originalName)
     /\ \A c \in Clients :
          StoresUpload(c) =>
            /\ Cardinality(NewIds) = 1
            /\ \A id \in NewIds :
                 Sanitized(files'[id].originalName, client[c].name)
     /\ (/\ \A i \in DOMAIN requests : ~StoresUploadPq(i)
         /\ \A c \in Clients : ~StoresUpload(c))
          => NewIds = {}
     /\ \A id \in NewIds :
          /\ files'[id].id = id
          /\ files'[id].storedName =
               [id |-> id, name |-> files'[id].originalName]
     /\ \A l \in listings' \ listings :
          /\ Len(l) = Cardinality(DOMAIN files)
          /\ \A id \in DOMAIN files : \E k \in 1..Len(l) : l[k] = files[id]
          /\ \A k \in 1..Len(l) : l[k] = files[l[k].id]
          /\ \A j, k \in 1..Len(l) : j < k => l[j].id < l[k].id
     /\ \A d \in downloads' \ downloads :
          d.id \notin DOMAIN files =>
            d.status = 404 /\ d.error = "Not found"]_vars

\* Two uploads are stored, one under a name that had to be sanitized; GET
\* /files has listed both, and GET /files/:id has answered 404 for the id
\* of a KEM key.
C33_Witness ==
  /\ Cardinality(DOMAIN files) = 2
  /\ \E id \in DOMAIN files :
       files[id].storedName = [id |-> id, name |-> <<"a", "_">>]
  /\ \E l \in listings : Len(l) = 2
  /\ \E d \in downloads : d.id \notin DOMAIN files /\ d.status = 404


\* ==================================================== loading the module
\* The module promises that calls in flight on the server await.
AwaitedPromises ==
  {loading[k].promise : k \in DOMAIN loading}
    \cup {microtasks[k].promise : k \in DOMAIN microtasks}

\* C34: the loader of a side, and with it the Emscripten factory, runs at
\* most once however the calls of the wrappers interleave, and every caller
\* awaits the promise of that one run; a promise that was rejected stays
\* the module promise, so that the loader is not run again and every later
\* call is rejected: GET /kem-pubkey gives no key, the browser posts nothing.
C34_SingleFlight ==
  /\ [](/\ \A side \in Sides : module_loads[side] <= 1
        /\ AwaitedPromises \subseteq {1}
        /\ client["browser"].awaits \in {0, 1}
        /\ wasm_module # "unloaded" => module_loads["server"] = 1
        /\ browser_module # "unloaded" => module_loads["browser"] = 1
        /\ wasm_module = "failed" => kemKeys = << >> /\ files = << >>)
  /\ [][/\ wasm_module = "failed" =>
             /\ wasm_module' = "failed"
             /\ module_loads'["server"] = module_loads["server"]
             /\ \A c \in Clients :
                  (client[c].pc = "kem_wait" /\ client'[c].pc # "kem_wait")
                    => client'[c].pc = "kem_failed"
        /\ browser_module = "failed" =>
             /\ browser_module' = "failed"
             /\ module_loads'["browser"] = module_loads["browser"]
             /\ client'["browser"].pc # client["browser"].pc =>
                  client'["browser"].pc \in {"kem_wait", "kem_failed",
                                              "has_key", "failed",
                                              "uploaded", "refused"}]_vars

\* The CLI's GET /kem-pubkey started the loader and the browser's arrived
\* while the module was loading; the load failed and both were rejected;
\* the CLI asked again and was rejected again, the loader having run once.
C34_Witness ==
  /\ wasm_module = "failed"
  /\ module_loads["server"] = 1
  /\ client["cli"].pc = "kem_failed"
  /\ client["cli"].module_at_call = "failed"
  /\ client["browser"].pc = "kem_failed"
  /\ client["browser"].module_at_call = "loading"

\* ======================================================== the WASM buffers
\* The buffers that the last direct call of a wrapper allocated and freed.
CallMallocs == wasm_call.after.mallocs - wasm_call.before.mallocs

CallFrees == wasm_call.after.frees - wasm_call.before.frees

\* The last direct call was given arguments of the lengths of ML-KEM-768.
CallLengthsOk ==
  CASE wasm_call.fn = "mlkemDecapsulate" ->
         wasm_call.ct.len = CT_LEN /\ wasm_call.sk.len = SK_LEN
    [] wasm_call.fn = "mlkemEncapsulate" -> wasm_call.pk.len = PK_LEN
    [] OTHER -> TRUE

\* The lengths of what a wrapper returns.
CallOutLens ==
  CASE wasm_call.fn = "mlkemKeypair" -> <<PK_LEN, SK_LEN>>
    [] wasm_call.fn = "mlkemDecapsulate" -> <<SS_LEN>>
    [] wasm_call.fn = "mlkemEncapsulate" -> <<CT_LEN, SS_LEN>>
    [] OTHER -> << >>

\* C35: a wrapper that is given a ciphertext, a secret key or a public key
\* of the wrong length throws without allocating; otherwise it allocates
\* two buffers (mlkemKeypair) or three and frees each of them exactly once,
\* also when the routine returns an error code; what it returns it has
\* copied from buffers that were still allocated.  Between two calls no
\* buffer is in use.
C35_BuffersReleased ==
  /\ \A side \in Sides :
       /\ heap[side].live = {}
       /\ heap[side].faults = {}
       /\ heap[side].mallocs = heap[side].frees
  /\ wasm_call.fn # "none" =>
       /\ wasm_call.threw <=> (~CallLengthsOk \/ wasm_call.rc # 0)
       /\ ~CallLengthsOk => CallMallocs = 0 /\ CallFrees = 0
       /\ CallLengthsOk =>
            /\ CallMallocs = (IF wasm_call.fn = "mlkemKeypair" THEN 2 ELSE 3)
            /\ CallFrees = CallMallocs
       /\ ~wasm_call.threw =>
            /\ Len(wasm_call.out) = Len(CallOutLens)
            /\ \A k \in 1..Len(wasm_call.out) :
                 wasm_call.out[k].len = CallOutLens[k]
  /\ \A i \in DOMAIN requests :
       requests[i].pc = "done" =>
         requests[i].allocated =
           IF PassesChecks(i) /\ FormKemCt(i).len = CT_LEN
              /\ wasm_module = "ready"
           THEN 3 ELSE 0

\* mlkemDecapsulate was called a second time, with a ciphertext and a secret
\* key of the right lengths; the routine returned an error code, the
\* wrapper threw, and its three buffers are free again.
C35_Witness ==
  /\ wasm_call.calls = 2
  /\ wasm_call.fn = "mlkemDecapsulate"
  /\ CallLengthsOk
  /\ wasm_call.rc # 0
  /\ wasm_call.threw
  /\ CallMallocs = 3
  /\ CallFrees = 3
  /\ heap["server"].live = {}

====
